---- MODULE Spec2Model ----
(***************************************************************************)
(* A model of the DTable virtual table: the paged-remote and the in-memory *)
(* data strategies, the dispatch queue of VirtualTable, the column model   *)
(* and the column state.                                                   *)
(*                                                                         *)
(* Scheduling: JavaScript runs one task at a time.  A call made by the     *)
(* page (a scroll, a dispatch, a query) and the settling of one fetch are   *)
(* tasks; the continuations a settled promise wakes (the rest of loadPage, *)
(* the finally block of ensurePageForRow, the rest of applyQuery and of    *)
(* its caller) are microtasks and run before the next task, so each action *)
(* below is one task together with the microtasks it triggers.             *)
(***************************************************************************)
EXTENDS Integers, Sequences, FiniteSets, TLC

None == "none"

(***************************************************************************)
(* Bounds of the model.                                                    *)
(***************************************************************************)
PageSize == 2
MaxRow == 3
MaxFetches == 4
MaxScroll == 1

Queries == {"q0", "q1"}
Rows == 0..MaxRow

VARIABLES
  \* ServerDataStrategy (src/unnamed/part_009)
  pageCache,        \* page index -> the query its rows were fetched under, or None
  loadingPromises,  \* page index -> id of the pending loadPage promise, 0 for no entry
  currentQuery,
  totalRows,
  \* the calls of fetchPageData that have not settled: [id, page, query, stale, retry]
  fetches,
  nextId,
  \* the suspended calls of ensurePageForRow / applyQuery / bootstrap:
  \* [op, promise, starter, page, stale]
  calls,
  bootstrapped,     \* bootstrapServerData has called dataStrategy.bootstrap()
  subscribed,       \* the action router is subscribed to the store
  \* the table around the strategy
  scrollTop,        \* shell.scrollContainer.scrollTop
  stateTotalRows,   \* the total row count the table holds (config.totalRows / state.data.totalRows)
  queryResolved,    \* the last step completed a query application
  failed,           \* pages whose last fetch was rejected and that nothing has loaded since
  \* VirtualTable (src/src/table/VirtualTable.ts)
  tableConfig,      \* what the user configuration provides
  phase,            \* where initializeAsync stands
  isReady,
  pendingActions,
  storeLog,         \* the actions the store has reduced, in order
  routed,           \* the actions the store has handed to handleStateChange, in order
  dispatched,       \* every action passed to VirtualTable.dispatch, in order
  bootPending,      \* the first-page fetch of bootstrapServerData has not settled
  mode,             \* this.mode once initComponents has run, None before
  dataStrategy,     \* the class of this.dataStrategy, None while there is none
  mounted,          \* the shell and the viewport are in the container
  destroyed,        \* destroy() has been called
  afterDestroy,     \* what initialization steps did to a destroyed table
  wrapperCalls,     \* every call of sort / filter, in order, and whether it threw
  \* ClientDataStrategy (src/unnamed/part_008)
  fullData,
  filteredData,
  clientQuery,      \* ClientDataStrategy.currentQuery
  \* the columns: IConfig.columns as given, state.columns of the store, and
  \* what TableStateSync writes back to the config
  originalColumns,
  order,
  widthOverrides,
  hiddenKeys,
  frozenCount,
  configColumns,
  configFrozenColumns,
  resolved,         \* the last result of resolveColumns and the file it came from
  \* PivotTable (src/src/table/pivot/PivotTable.ts)
  pivotData,        \* this.data
  pivotConfig,      \* rowGroups and the aggregation of the value field
  treeRoot,
  flatRows,
  pivotScrollTop,   \* scrollContainer.scrollTop, in rows and a remainder of pixels
  visibleRange,     \* the [startRow, endRow] of the last updateVisibleRows
  \* ScrollBinder (src/src/table/interaction/HeaderSortBinder.ts)
  scrollBound,      \* onScrollHandler is attached to the container
  rafId,            \* this.rafId, 0 for null
  frameCallbacks,   \* the ids of the callbacks the browser will run at the next frame
  nextRafId,
  scrollEvents,     \* the scroll events since the last frame
  frameRuns,        \* how often onRafScroll ran in the last frame
  lastScroll,       \* what the last scroll event did to the frame callbacks
  \* ColumnWidthStorage (src/unnamed/part_002) over localStorage
  localStorage,     \* slot -> the text stored, or no entry
  storageAvailable,
  lastStorageCall,  \* the last call of the storage class and how it ended
  \* new TableConfig(userConfig) and the key check of initializeAsync
  userColumns,
  validation,       \* how the construction went
  savedColumnOrder, \* what widthStorage.loadColumnOrder() returns
  restore,          \* config.columns once the constructor has restored the saved state
  \* calculateColumnWidth (src/src/utils/calculateColumnWidth.ts)
  widthColumns,     \* the columns passed
  containerWidth,
  calculated        \* the array returned, once the call has been made

serverVars == <<pageCache, loadingPromises, currentQuery, totalRows, fetches, nextId,
                calls, bootstrapped, subscribed, scrollTop, stateTotalRows,
                queryResolved, failed>>

tableVars == <<tableConfig, phase, isReady, pendingActions, storeLog, routed, dispatched,
               bootPending, mode, dataStrategy, mounted, destroyed, afterDestroy,
               wrapperCalls>>

clientVars == <<fullData, filteredData, clientQuery>>

columnVars == <<originalColumns, order, widthOverrides, hiddenKeys, frozenCount,
                configColumns, configFrozenColumns, resolved>>

pivotVars == <<pivotData, pivotConfig, treeRoot, flatRows, pivotScrollTop, visibleRange>>

binderVars == <<scrollBound, rafId, frameCallbacks, nextRafId, scrollEvents, frameRuns,
                lastScroll>>

storageVars == <<localStorage, storageAvailable, lastStorageCall>>

validatorVars == <<userColumns, validation, savedColumnOrder, restore>>

widthVars == <<widthColumns, containerWidth, calculated>>

vars == <<serverVars, tableVars, clientVars, columnVars, pivotVars, binderVars,
          storageVars, validatorVars, widthVars>>

\* What each part of the model leaves alone.
serverOnly == <<pageCache, loadingPromises, currentQuery, totalRows, fetches, nextId, calls,
                bootstrapped, scrollTop, stateTotalRows, queryResolved, failed>>
otherVars == <<pivotVars, binderVars, storageVars, validatorVars, widthVars>>
notServer == <<tableVars, clientVars, columnVars, otherVars>>
notTable == <<serverOnly, clientVars, columnVars, otherVars>>
notClient == <<serverVars, tableVars, columnVars, otherVars>>
notColumns == <<serverVars, tableVars, clientVars, otherVars>>
tableParts == <<serverVars, tableVars, clientVars, columnVars>>
notPivot == <<tableParts, binderVars, storageVars, validatorVars, widthVars>>
notBinder == <<tableParts, pivotVars, storageVars, validatorVars, widthVars>>
notStorage == <<tableParts, pivotVars, binderVars, validatorVars, widthVars>>
notValidator == <<tableParts, pivotVars, binderVars, storageVars, widthVars>>
notWidths == <<tableParts, pivotVars, binderVars, storageVars, validatorVars>>

(***************************************************************************)
(* The paged-remote strategy.                                              *)
(***************************************************************************)
\* Math.floor(rowIndex / this.pageSize)
PageIndexOf(rowIndex) == rowIndex \div PageSize

Pages == {PageIndexOf(r) : r \in Rows}

\* The server behind fetchPageData: the total it reports for a query.
ServerTotal(query) == IF query = "q0" THEN MaxRow + 1 ELSE 1

\* pageCache.clear() / loadingPromises.clear()
ClearedCache == [p \in Pages |-> None]
ClearedLoading == [p \in Pages |-> 0]

\* loadPage after the fetch resolved: this.pageCache.set(pageIndex, result.list)
CacheAfterLoad(cache, f) == [cache EXCEPT ![f.page] = f.query]

\* loadPage after the fetch resolved: this.totalRows = result.totalRows
TotalAfterLoad(total, f) == ServerTotal(f.query)

\* (a variant that never deletes the entry)
LoadingKeptAfterSettle(loading, pageIndex) == loading

\* the finally block of ensurePageForRow: this.loadingPromises.delete(pageIndex)
LoadingAfterSettle(loading, pageIndex) == [loading EXCEPT ![pageIndex] = 0]

\* A new call of fetchPageData(pageIndex, this.currentQuery) made by loadPage.
NewFetch(pageIndex) ==
  [id |-> nextId, page |-> pageIndex, query |-> currentQuery, stale |-> FALSE,
   retry |-> pageIndex \in failed]

\* A suspended call awaiting the loadPage promise `promise`.
Call(op, promise, starter, pageIndex) ==
  [op |-> op, promise |-> promise, starter |-> starter, page |-> pageIndex,
   stale |-> FALSE]

\* ensurePageForRow up to its await, for a call made by `op`.
EnsurePage(op, pageIndex, cache, loading) ==
  IF cache[pageIndex] # None
    THEN /\ UNCHANGED <<fetches, nextId, failed>>
         /\ loadingPromises' = loading
         /\ calls' = calls
    ELSE IF loading[pageIndex] # 0
      THEN /\ UNCHANGED <<fetches, nextId, failed>>
           /\ loadingPromises' = loading
           /\ calls' = calls \cup {Call(op, loading[pageIndex], FALSE, pageIndex)}
      ELSE /\ nextId <= MaxFetches
           /\ fetches' = fetches \cup {NewFetch(pageIndex)}
           /\ nextId' = nextId + 1
           /\ failed' = failed \ {pageIndex}
           /\ loadingPromises' = [loading EXCEPT ![pageIndex] = nextId]
           /\ calls' = calls \cup {Call(op, nextId, TRUE, pageIndex)}

\* bootstrapServerData: void this.dataStrategy.bootstrap().then(...)
BootstrapServerData ==
  /\ UNCHANGED notServer
  /\ ~bootstrapped
  /\ bootstrapped' = TRUE
  /\ EnsurePage("bootstrap", 0, pageCache, loadingPromises)
  /\ queryResolved' = FALSE
  /\ UNCHANGED <<pageCache, currentQuery, totalRows, subscribed, scrollTop, stateTotalRows>>

\* The viewport asks for the page of a row it has no data for.
EnsurePageForRow(rowIndex) ==
  /\ UNCHANGED notServer
  /\ bootstrapped
  /\ EnsurePage("ensure", PageIndexOf(rowIndex), pageCache, loadingPromises)
  /\ queryResolved' = FALSE
  /\ UNCHANGED <<pageCache, currentQuery, totalRows, bootstrapped, subscribed, scrollTop,
                 stateTotalRows>>

\* The fetches in flight when applyQuery clears the maps belong to an earlier query.
MarkStale(S) == {[x EXCEPT !.stale = TRUE] : x \in S}

\* A sort or filter change reaches the table: the scroll container goes back to the
\* top, then ServerDataStrategy.applyQuery clears both maps, sets currentQuery and
\* awaits ensurePageForRow(0).
ApplyServerQuery(query) ==
  /\ UNCHANGED notServer
  /\ subscribed
  /\ nextId <= MaxFetches
  /\ scrollTop' = 0
  /\ pageCache' = ClearedCache
  /\ currentQuery' = query
  /\ fetches' = MarkStale(fetches) \cup
                  {[id |-> nextId, page |-> 0, query |-> query, stale |-> FALSE,
                    retry |-> 0 \in failed]}
  /\ nextId' = nextId + 1
  /\ failed' = failed \ {0}
  /\ loadingPromises' = [ClearedLoading EXCEPT ![0] = nextId]
  /\ calls' = MarkStale(calls) \cup {Call("applyQuery", nextId, TRUE, 0)}
  /\ queryResolved' = FALSE
  /\ UNCHANGED <<totalRows, bootstrapped, subscribed, stateTotalRows>>

\* The calls that a settled promise wakes.
Woken(id) == {c \in calls : c.promise = id}

\* A call of fetchPageData resolves: loadPage stores the page and the total, the
\* starter's finally block deletes the entry of the page, the waiting calls return,
\* and the callers of applyQuery / bootstrap take over the total.
FetchResolve(id) ==
  \E f \in fetches :
    /\ UNCHANGED notServer
    /\ f.id = id
    /\ fetches' = fetches \ {f}
    /\ pageCache' = CacheAfterLoad(pageCache, f)
    /\ totalRows' = TotalAfterLoad(totalRows, f)
    /\ loadingPromises' =
         IF \E c \in Woken(id) : c.starter
           THEN LoadingAfterSettle(loadingPromises, f.page)
           ELSE loadingPromises
    /\ calls' = calls \ Woken(id)
    /\ failed' = failed \ {f.page}
    /\ stateTotalRows' =
         IF \E c \in Woken(id) : c.op \in {"applyQuery", "bootstrap"}
           THEN totalRows'
           ELSE stateTotalRows
    /\ subscribed' = (subscribed \/ \E c \in Woken(id) : c.op = "bootstrap")
    /\ queryResolved' = (\E c \in Woken(id) : c.op = "applyQuery")
    /\ UNCHANGED <<currentQuery, nextId, bootstrapped, scrollTop>>

\* The pages a rejection leaves to be fetched again.
FailedAfterReject(f) == IF pageCache[f.page] = None THEN failed \cup {f.page} ELSE failed

\* A call of fetchPageData rejects: loadPage rethrows, the starter's finally block
\* deletes the entry of the page, and every call awaiting the promise fails.
FetchReject(id) ==
  \E f \in fetches :
    /\ UNCHANGED notServer
    /\ f.id = id
    /\ fetches' = fetches \ {f}
    /\ loadingPromises' =
         IF \E c \in Woken(id) : c.starter
           THEN LoadingAfterSettle(loadingPromises, f.page)
           ELSE loadingPromises
    /\ calls' = calls \ Woken(id)
    /\ failed' = FailedAfterReject(f)
    /\ queryResolved' = FALSE
    /\ UNCHANGED <<pageCache, totalRows, currentQuery, nextId, bootstrapped, subscribed,
                   scrollTop, stateTotalRows>>

\* The user scrolls the container.
Scroll(top) ==
  /\ UNCHANGED notServer
  /\ bootstrapped
  /\ top # scrollTop
  /\ scrollTop' = top
  /\ queryResolved' = FALSE
  /\ UNCHANGED <<pageCache, loadingPromises, currentQuery, totalRows, fetches, nextId,
                 calls, bootstrapped, subscribed, stateTotalRows, failed>>

\* The strategy as its constructor leaves it, before any call.
ServerIdle ==
  /\ pageCache = ClearedCache
  /\ loadingPromises = ClearedLoading
  /\ currentQuery = "q0"
  /\ totalRows = 0
  /\ fetches = {}
  /\ nextId = 1
  /\ calls = {}
  /\ bootstrapped = FALSE
  /\ subscribed = FALSE
  /\ scrollTop = 0
  /\ stateTotalRows = 0
  /\ queryResolved = FALSE
  /\ failed = {}

\* The table of the paged-remote runs: server mode, mounted and ready.
TableIdle ==
  /\ tableConfig = [hasInitialData |-> FALSE, initialLength |-> 0,
                    hasFetchPageData |-> TRUE, reportedTotal |-> 0]
  /\ phase = "ready"
  /\ isReady = TRUE
  /\ pendingActions = <<>>
  /\ storeLog = <<>>
  /\ routed = <<>>
  /\ dispatched = <<>>
  /\ bootPending = FALSE
  /\ mode = "server"
  /\ dataStrategy = "ServerDataStrategy"
  /\ mounted = TRUE
  /\ destroyed = FALSE
  /\ afterDestroy = {}
  /\ wrapperCalls = <<>>

\* No in-memory strategy.
ClientIdle == fullData = <<>> /\ filteredData = <<>> /\ clientQuery = None

\* No columns.
Unresolved == [by |-> None, columns |-> <<>>]
ColumnsIdle ==
  /\ originalColumns = <<>>
  /\ order = <<>>
  /\ widthOverrides = <<>>
  /\ hiddenKeys = {}
  /\ frozenCount = 0
  /\ configColumns = <<>>
  /\ configFrozenColumns = 0
  /\ resolved = Unresolved

\* No pivot table.
PivotIdle ==
  /\ pivotData = <<>>
  /\ pivotConfig = <<>>
  /\ treeRoot = <<>>
  /\ flatRows = <<>>
  /\ pivotScrollTop = 0
  /\ visibleRange = <<>>

\* No scroll binding.
BinderIdle ==
  /\ scrollBound = FALSE
  /\ rafId = 0
  /\ frameCallbacks = {}
  /\ nextRafId = 1
  /\ scrollEvents = 0
  /\ frameRuns = 0
  /\ lastScroll = <<>>

\* Nothing persisted, no call made.
StorageIdle ==
  /\ localStorage = <<>>
  /\ storageAvailable = TRUE
  /\ lastStorageCall = <<>>

\* No configuration under construction.
ValidatorIdle ==
  /\ userColumns = <<>>
  /\ validation = <<>>
  /\ savedColumnOrder = <<>>
  /\ restore = <<>>

\* No call of calculateColumnWidth.
WidthsIdle == widthColumns = <<>> /\ containerWidth = 0 /\ calculated = <<>>

OthersIdle == PivotIdle /\ BinderIdle /\ StorageIdle /\ ValidatorIdle /\ WidthsIdle
TablePartsIdle == ServerIdle /\ TableIdle /\ ClientIdle /\ ColumnsIdle

InitServer == ServerIdle /\ TableIdle /\ ClientIdle /\ ColumnsIdle /\ OthersIdle

NextServer ==
  \/ BootstrapServerData
  \/ \E r \in Rows : EnsurePageForRow(r)
  \/ \E q \in Queries : ApplyServerQuery(q)
  \/ \E id \in 1..MaxFetches : FetchResolve(id)
  \/ \E id \in 1..MaxFetches : FetchReject(id)
  \/ \E top \in 0..MaxScroll : Scroll(top)

SpecServer == InitServer /\ [][NextServer]_vars

(***************************************************************************)
(* C1: at most one call of fetchPage is outstanding for any (pageIndex,    *)
(* query) pair, in every reachable state.                                  *)
(***************************************************************************)
C1_OneFetchPerPageAndQuery ==
  \A f, g \in fetches : (f.page = g.page /\ f.query = g.query) => f.id = g.id

(***************************************************************************)
(* C2: calls of ensurePageForRow for rows of one page, made with no       *)
(* applyQuery in between and before the first of their fetches has         *)
(* settled, invoke fetchPage once, and each pending call waits for that    *)
(* one fetch.                                                              *)
(***************************************************************************)
FetchesSinceQuery(pageIndex) == {f \in fetches : f.page = pageIndex /\ ~f.stale}

C2_OneFetchPerPageSinceQuery ==
  /\ \A p \in Pages : Cardinality(FetchesSinceQuery(p)) <= 1
  /\ \A c \in calls : ~c.stale => \E f \in FetchesSinceQuery(c.page) : f.id = c.promise

(***************************************************************************)
(* C4: whenever a query application has resolved, the total row count the  *)
(* table holds equals dataStrategy.getTotalRows() and scrollTop is 0.      *)
(***************************************************************************)
C4_ResolvedQueryState ==
  queryResolved => (stateTotalRows = totalRows /\ scrollTop = 0)

(***************************************************************************)
(* C5: a rejected fetchPage is recoverable: the rejection leaves pageCache *)
(* and totalRows unchanged and removes the in-flight entry of the page; a  *)
(* page whose fetch was rejected is neither cached nor marked in flight,   *)
(* and the next ensurePageForRow for one of its rows calls fetchPage again.*)
(***************************************************************************)
RejectedPagesAreFree ==
  \A p \in failed : pageCache[p] = None /\ loadingPromises[p] = 0

RejectionLeavesData ==
  \A f \in fetches :
    FetchReject(f.id) =>
      /\ pageCache' = pageCache
      /\ totalRows' = totalRows
      /\ loadingPromises'[f.page] = 0
      /\ \A c \in calls' : c.promise # f.id

RetryFetchesAgain ==
  \A r \in Rows :
    (PageIndexOf(r) \in failed /\ EnsurePageForRow(r)) =>
      \E f \in fetches' \ fetches :
        f.page = PageIndexOf(r) /\ f.query = currentQuery /\ loadingPromises'[f.page] = f.id

C5_RejectedFetchRecoverable ==
  /\ []RejectedPagesAreFree
  /\ [][RejectionLeavesData]_vars
  /\ [][RetryFetchesAgain]_vars

\* A fetch that was issued for a page whose previous fetch had been rejected.
C5_Witness == \E f \in fetches : f.retry

\* what the strategy holds was fetched under the current query
CacheIsCurrent == \A p \in Pages : pageCache[p] \in {None, currentQuery}
TotalIsCurrent ==
  (\E p \in Pages : pageCache[p] # None) => totalRows = ServerTotal(currentQuery)
\* a fetch issued since the last applyQuery still has its in-flight entry
CurrentFetchesTracked == \A f \in fetches : ~f.stale => loadingPromises[f.page] = f.id

(***************************************************************************)
(* C23: the cached pages and totalRows come from a fetch issued under the  *)
(* current query: a fetch issued before the latest applyQuery never writes *)
(* its rows into the cache, never changes totalRows and never removes the  *)
(* in-flight entry of a fetch of the new query.                            *)
(***************************************************************************)
C23_StaleFetchWritesNothing ==
  /\ CacheIsCurrent
  /\ TotalIsCurrent
  /\ CurrentFetchesTracked

(***************************************************************************)
(* VirtualTable: initialization, the ready flag and the pending queue.     *)
(***************************************************************************)
MaxDispatch == 3

\* The threshold of '@/config/Constant'; the model's datasets have up to one
\* row more.
CLIENT_SIDE_MAX_ROWS == 1
Lengths == 0..(CLIENT_SIDE_MAX_ROWS + 1)

ActionTypes == {"SORT_SET", "SET_FILTER_TEXT", "COLUMN_HIDE"}

\* What the user configuration provides: initialData and its length,
\* fetchPageData and the totalRows its pages report.
TableConfigs ==
  { cfg \in [hasInitialData : BOOLEAN, initialLength : Lengths,
             hasFetchPageData : BOOLEAN, reportedTotal : Lengths] :
      /\ ~cfg.hasInitialData => cfg.initialLength = 0
      /\ ~cfg.hasFetchPageData => cfg.reportedTotal = 0 }

\* (a variant without the typeof test)
IsServerBootstrapWithoutFetchTest(cfg) == ~cfg.hasInitialData

\* !this.config.initialData && typeof this.config.fetchPageData === 'function'
IsServerBootstrap(cfg) == ~cfg.hasInitialData /\ cfg.hasFetchPageData

\* bootstrapStrategy(config): the mode it decides on, or that it throws
BootstrapStrategy(cfg) ==
  IF cfg.hasInitialData
    THEN IF cfg.initialLength <= CLIENT_SIDE_MAX_ROWS THEN "client" ELSE "server"
    ELSE IF ~cfg.hasFetchPageData THEN "throws"
    ELSE IF cfg.reportedTotal <= CLIENT_SIDE_MAX_ROWS THEN "client" ELSE "server"

StrategyOf(m) == IF m = "client" THEN "ClientDataStrategy" ELSE "ServerDataStrategy"

\* bootstrapStrategy awaits fetchPageData: for the first page of a server-mode
\* strategy, or for every page when only fetchPageData is given
BootstrapFetches(cfg) ==
  \/ ~cfg.hasInitialData /\ BootstrapStrategy(cfg) # "throws"
  \/ cfg.hasInitialData /\ BootstrapStrategy(cfg) = "server"

\* The n-th call of dispatch, sort or filter, and an action the table
\* dispatches itself.
UserAction(type) == [type |-> type, n |-> Len(dispatched) + Len(wrapperCalls) + 1]
OwnAction(type) == [type |-> type, n |-> 0]

\* this.store is assigned by initComponents, in the step that ends with markAsReady.
StoreExists == phase = "ready"

\* dispatch: if (!this.isReady || !this.store) the action is queued
MustQueue == ~isReady \/ ~StoreExists

\* store.dispatch: the reducer runs, then the subscribers are notified.
StoreAfter(log, actions) == log \o actions
RoutedAfter(seen, actions, isSubscribed) == IF isSubscribed THEN seen \o actions ELSE seen

\* (a variant that empties the queue from its end)
FlushPendingFromEnd(log, pending) ==
  StoreAfter(log, [i \in 1..Len(pending) |-> pending[Len(pending) + 1 - i]])

\* markAsReady: pending.forEach(action => this.store.dispatch(action))
FlushPending(log, pending) == StoreAfter(log, pending)

\* what a step of the initialization adds to the record of a destroyed table
AfterDestroy(effects) == IF destroyed THEN afterDestroy \cup effects ELSE afterDestroy

\* The constructor starts initializeAsync.  With only fetchPageData the whole of
\* the server branch runs at once: initServerMode, mount, markAsReady, then
\* bootstrapServerData starts the first-page fetch.  Otherwise it awaits
\* initClientMode.
InitializeAsync ==
  /\ phase = "new"
  /\ IF IsServerBootstrap(tableConfig)
       THEN /\ phase' = "ready"
            /\ mode' = "server"
            /\ dataStrategy' = "ServerDataStrategy"
            /\ mounted' = TRUE
            /\ isReady' = TRUE
            /\ storeLog' = FlushPending(StoreAfter(storeLog, <<OwnAction("COLUMN_ORDER_SET")>>),
                                        pendingActions)
            /\ routed' = RoutedAfter(routed, pendingActions, subscribed)
            /\ pendingActions' = <<>>
            /\ bootPending' = TRUE
       ELSE /\ phase' = "awaiting"
            /\ UNCHANGED <<isReady, storeLog, routed, pendingActions, bootPending, mode,
                           dataStrategy, mounted>>
  /\ UNCHANGED <<tableConfig, dispatched, subscribed, destroyed, afterDestroy, wrapperCalls>>
  /\ UNCHANGED notTable

\* initClientMode resolved: initComponents, mount, subscribeStore, markAsReady.
InitClientModeDone ==
  /\ phase = "awaiting"
  /\ BootstrapStrategy(tableConfig) # "throws"
  /\ BootstrapFetches(tableConfig) => tableConfig.hasFetchPageData
  /\ phase' = "ready"
  /\ mode' = BootstrapStrategy(tableConfig)
  /\ dataStrategy' = StrategyOf(BootstrapStrategy(tableConfig))
  /\ mounted' = TRUE
  /\ subscribed' = TRUE
  /\ isReady' = TRUE
  /\ storeLog' = FlushPending(StoreAfter(storeLog, <<OwnAction("SET_TOTAL_ROWS"),
                                                     OwnAction("COLUMN_ORDER_SET")>>),
                              pendingActions)
  /\ routed' = RoutedAfter(routed, pendingActions, TRUE)
  /\ pendingActions' = <<>>
  /\ afterDestroy' = AfterDestroy({"dispatch", "mount", "subscribe"}
                                    \cup IF BootstrapStrategy(tableConfig) = "client"
                                           THEN {"updateVisibleRows"} ELSE {})
  /\ UNCHANGED <<tableConfig, dispatched, bootPending, destroyed, wrapperCalls>>
  /\ UNCHANGED notTable

\* initClientMode rejected: bootstrapStrategy threw (neither initialData nor
\* fetchPageData) or a page it awaited could not be fetched (fetchPageData
\* rejected, or config.fetchPageData! is undefined).  initializeAsync logs and
\* rethrows.
InitClientModeFailed ==
  /\ phase = "awaiting"
  /\ BootstrapStrategy(tableConfig) = "throws" \/ BootstrapFetches(tableConfig)
  /\ phase' = "failed"
  /\ UNCHANGED <<tableConfig, isReady, pendingActions, storeLog, routed, dispatched,
                 bootPending, subscribed, mode, dataStrategy, mounted, destroyed,
                 afterDestroy, wrapperCalls>>
  /\ UNCHANGED notTable

\* dispatch(action)
Dispatch(type) ==
  /\ phase # "new"
  /\ Len(dispatched) + Len(wrapperCalls) < MaxDispatch
  /\ dispatched' = Append(dispatched, [type |-> type, n |-> UserAction(type).n,
                                       early |-> phase # "ready"])
  /\ IF MustQueue
       THEN /\ pendingActions' = Append(pendingActions, UserAction(type))
            /\ UNCHANGED <<storeLog, routed>>
       ELSE /\ storeLog' = StoreAfter(storeLog, <<UserAction(type)>>)
            /\ routed' = RoutedAfter(routed, <<UserAction(type)>>, subscribed)
            /\ UNCHANGED pendingActions
  /\ UNCHANGED <<tableConfig, phase, isReady, bootPending, subscribed, mode, dataStrategy,
                 mounted, destroyed, afterDestroy, wrapperCalls>>
  /\ UNCHANGED notTable

\* sort(sortKey, direction) and filter(filterText): this.store.dispatch(action),
\* a TypeError while this.store is not assigned
WrapperCall(type) ==
  /\ phase # "new"
  /\ Len(dispatched) + Len(wrapperCalls) < MaxDispatch
  /\ wrapperCalls' = Append(wrapperCalls, [type |-> type, n |-> UserAction(type).n,
                                           early |-> phase # "ready",
                                           threw |-> ~StoreExists])
  /\ IF StoreExists
       THEN /\ storeLog' = StoreAfter(storeLog, <<UserAction(type)>>)
            /\ routed' = RoutedAfter(routed, <<UserAction(type)>>, subscribed)
       ELSE UNCHANGED <<storeLog, routed>>
  /\ UNCHANGED <<tableConfig, phase, isReady, pendingActions, dispatched, bootPending,
                 subscribed, mode, dataStrategy, mounted, destroyed, afterDestroy>>
  /\ UNCHANGED notTable

Sort == WrapperCall("SORT_SET")
Filter == WrapperCall("SET_FILTER_TEXT")

\* bootstrapServerData, the first page arrived: SET_TOTAL_ROWS, updateVisibleRows,
\* then subscribeStore.  What updateVisibleRows does on a destroyed viewport is
\* not in the sources: it returns, or it throws and ends the callback.
BootstrapServerDone ==
  /\ bootPending
  /\ bootPending' = FALSE
  /\ storeLog' = StoreAfter(storeLog, <<OwnAction("SET_TOTAL_ROWS")>>)
  /\ routed' = RoutedAfter(routed, <<OwnAction("SET_TOTAL_ROWS")>>, subscribed)
  /\ \E viewportThrows \in (IF destroyed THEN BOOLEAN ELSE {FALSE}) :
       /\ subscribed' = (subscribed \/ ~viewportThrows)
       /\ afterDestroy' = AfterDestroy({"dispatch", "updateVisibleRows"}
                                         \cup IF viewportThrows THEN {} ELSE {"subscribe"})
  /\ UNCHANGED <<tableConfig, phase, isReady, pendingActions, dispatched, mode,
                 dataStrategy, mounted, destroyed, wrapperCalls>>
  /\ UNCHANGED notTable

\* bootstrapServerData, the first-page fetch rejected: the then-callback never runs.
BootstrapServerFailed ==
  /\ bootPending
  /\ bootPending' = FALSE
  /\ UNCHANGED <<tableConfig, phase, isReady, pendingActions, storeLog, routed, dispatched,
                 subscribed, mode, dataStrategy, mounted, destroyed, afterDestroy,
                 wrapperCalls>>
  /\ UNCHANGED notTable

\* destroy(): unsubscribe, then shell, viewport, layout and panels are destroyed
Destroy ==
  /\ phase # "new"
  /\ ~destroyed
  /\ destroyed' = TRUE
  /\ subscribed' = FALSE
  /\ mounted' = FALSE
  /\ UNCHANGED <<tableConfig, phase, isReady, pendingActions, storeLog, routed, dispatched,
                 bootPending, mode, dataStrategy, afterDestroy, wrapperCalls>>
  /\ UNCHANGED notTable

InitTable ==
  /\ OthersIdle
  /\ ServerIdle
  /\ ClientIdle
  /\ ColumnsIdle
  /\ tableConfig \in TableConfigs
  /\ phase = "new"
  /\ isReady = FALSE
  /\ pendingActions = <<>>
  /\ storeLog = <<>>
  /\ routed = <<>>
  /\ dispatched = <<>>
  /\ bootPending = FALSE
  /\ mode = None
  /\ dataStrategy = None
  /\ mounted = FALSE
  /\ destroyed = FALSE
  /\ afterDestroy = {}
  /\ wrapperCalls = <<>>

NextTable ==
  \/ InitializeAsync
  \/ InitClientModeDone
  \/ InitClientModeFailed
  \/ \E type \in ActionTypes : Dispatch(type)
  \/ Sort
  \/ Filter
  \/ BootstrapServerDone
  \/ BootstrapServerFailed
  \/ Destroy

SpecTable == InitTable /\ [][NextTable]_vars

(***************************************************************************)
(* C3: every action passed to dispatch before initialization has completed *)
(* is held in the pending queue, is not applied to the store before ready, *)
(* and on ready is dispatched to the store exactly once, in submission     *)
(* order.                                                                  *)
(***************************************************************************)
StripEarly(d) == [type |-> d.type, n |-> d.n]
IsEarly(d) == d.early
EarlyActions ==
  LET early == SelectSeq(dispatched, IsEarly)
  IN  [i \in 1..Len(early) |-> StripEarly(early[i])]
IsUserEntry(e) == e.n > 0
UserLog == SelectSeq(storeLog, IsUserEntry)

C3_PendingFlushedInOrder ==
  /\ ~isReady => (UserLog = <<>> /\ pendingActions = EarlyActions)
  /\ isReady => /\ pendingActions = <<>>
                /\ Len(UserLog) >= Len(EarlyActions)
                /\ SubSeq(UserLog, 1, Len(EarlyActions)) = EarlyActions
                /\ \A i, j \in 1..Len(UserLog) : UserLog[i] = UserLog[j] => i = j

\* The table became ready with two actions queued, and they are in the store.
C3_Witness == isReady /\ Len(EarlyActions) >= 2 /\ Len(UserLog) >= 2

\* the mode the threshold rule gives a configuration
ThresholdMode(cfg) ==
  IF (IF cfg.hasInitialData THEN cfg.initialLength ELSE cfg.reportedTotal)
       <= CLIENT_SIDE_MAX_ROWS
    THEN "client" ELSE "server"

\* C11: initialization chooses the data mode by the threshold rule: with
\* initialData, in-memory iff its length is at most CLIENT_SIDE_MAX_ROWS; with
\* only fetchPageData, in-memory iff the reported totalRows is at most
\* CLIENT_SIDE_MAX_ROWS, paged-remote otherwise.
C11_ModeByThreshold ==
  phase = "ready" =>
    /\ mode = ThresholdMode(tableConfig)
    /\ dataStrategy = StrategyOf(ThresholdMode(tableConfig))

\* the first half of C11, which initialization keeps
ModeByThresholdWithInitialData ==
  (phase = "ready" /\ tableConfig.hasInitialData) =>
    /\ mode = ThresholdMode(tableConfig)
    /\ dataStrategy = StrategyOf(ThresholdMode(tableConfig))

ProvidesNeither(cfg) == ~cfg.hasInitialData /\ ~cfg.hasFetchPageData

\* C12: with neither initialData nor fetchPageData, initialization is aborted:
\* no data strategy is created, the table never becomes ready, nothing is
\* mounted and no queued action is dispatched to a store.
C12_NeitherAborts ==
  ProvidesNeither(tableConfig) =>
    /\ phase \in {"new", "awaiting", "failed"}
    /\ dataStrategy = None
    /\ mode = None
    /\ ~isReady
    /\ ~mounted
    /\ storeLog = <<>>
    /\ routed = <<>>

\* Initialization failed with an action in the queue.
C12_Witness ==
  /\ ProvidesNeither(tableConfig)
  /\ phase = "failed"
  /\ pendingActions # <<>>

\* C19: after destroy() the action router is unsubscribed from the store and
\* stays so: no later completion of the initialization subscribes it again,
\* dispatches to the store or updates the viewport.
C19_DestroyedStaysUnsubscribed ==
  destroyed => (~subscribed /\ afterDestroy = {})

\* C20: sort and filter are wrappers around dispatch in every state: no call
\* fails, and a call made before ready is queued and is in the store once the
\* table is ready.
C20_WrappersEnqueue ==
  \A i \in 1..Len(wrapperCalls) :
    LET call == wrapperCalls[i]
        action == [type |-> call.type, n |-> call.n]
    IN  /\ ~call.threw
        /\ call.early =>
             IF isReady THEN \E j \in 1..Len(storeLog) : storeLog[j] = action
                        ELSE \E j \in 1..Len(pendingActions) : pendingActions[j] = action

\* handleStateChange is called for an action iff the router was subscribed when
\* the store took it: the user actions of the store the router never saw
IsRouted(e) == \E j \in 1..Len(routed) : routed[j] = e
IsUnrouted(e) == ~IsRouted(e)
Unrouted == SelectSeq(UserLog, IsUnrouted)

\* C24: every action that reaches the store, flushed from the pending queue or
\* dispatched afterwards, is delivered to the action router, in client mode and
\* in server mode, also before the first-page bootstrap fetch has completed and
\* after it has failed.
C24_StoreActionsRouted == ~destroyed => Unrouted = <<>>

\* the part of C24 that initialization keeps: a table initialized through
\* initClientMode subscribes the router before the queue is flushed
StoreActionsRoutedAfterInitClientMode ==
  (~destroyed /\ ~IsServerBootstrap(tableConfig)) => Unrouted = <<>>

\* this.ready is created with a resolve function only, which markAsReady calls
\* in the step that sets isReady; nothing rejects it.
ReadyPromise == IF isReady THEN "resolved" ELSE "pending"

\* C25: the ready promise settles in every execution: it is resolved once
\* initialization has completed, and rejected once initialization has failed,
\* instead of staying pending with actions left in the pending queue.
C25_ReadySettles ==
  /\ phase = "ready" => ReadyPromise = "resolved"
  /\ phase = "failed" => ReadyPromise = "rejected"

\* the part of C25 that initialization keeps
ReadyResolvedWhenInitialized ==
  /\ phase = "ready" => ReadyPromise = "resolved"
  /\ phase \in {"new", "awaiting"} => ReadyPromise = "pending"

(***************************************************************************)
(* The in-memory strategy.  A cell is a number, a string (a sequence of    *)
(* one-character strings) or null; a row maps the column keys to cells.    *)
(* The strings of the model are written in the characters of Alphabet, so  *)
(* the conversions below are JavaScript's on exactly those strings.        *)
(***************************************************************************)
MaxData == 3

Num(n) == [t |-> "num", n |-> n]
Str(s) == [t |-> "str", s |-> s]
Null == [t |-> "null"]

Digits == <<"0", "1", "2", "3", "4", "5", "6", "7", "8", "9">>
IsDigit(c) == \E d \in 1..10 : Digits[d] = c
DigitValue(c) == (CHOOSE d \in 1..10 : Digits[d] = c) - 1

\* String(n) for an integer n
RECURSIVE NumberToString(_)
NumberToString(n) ==
  IF n < 0 THEN <<"-">> \o NumberToString(0 - n)
  ELSE IF n < 10 THEN <<Digits[n + 1]>>
  ELSE NumberToString(n \div 10) \o <<Digits[(n % 10) + 1]>>

\* String(val)
StringOf(cell) ==
  CASE cell.t = "num" -> NumberToString(cell.n)
    [] cell.t = "str" -> cell.s
    [] cell.t = "null" -> <<"n", "u", "l", "l">>

\* cellVal ?? ''
OrEmpty(cell) == IF cell.t = "null" THEN Str(<<>>) ELSE cell

\* s.toLowerCase()
LowerChar(c) == CASE c = "A" -> "a" [] c = "B" -> "b" [] OTHER -> c
ToLowerCase(s) == [i \in 1..Len(s) |-> LowerChar(s[i])]

\* s.includes(t)
Includes(s, t) == \E i \in 0..(Len(s) - Len(t)) : SubSeq(s, i + 1, i + Len(t)) = t

\* The value of a string of digits.
RECURSIVE DigitsValue(_)
DigitsValue(s) ==
  IF s = <<>> THEN 0
  ELSE 10 * DigitsValue(SubSeq(s, 1, Len(s) - 1)) + DigitValue(s[Len(s)])

\* The longest prefix of s made of digits.
RECURSIVE DigitPrefix(_)
DigitPrefix(s) ==
  IF s = <<>> \/ ~IsDigit(Head(s)) THEN <<>> ELSE <<Head(s)>> \o DigitPrefix(Tail(s))

NaN == [nan |-> TRUE, val |-> 0]
Finite(n) == [nan |-> FALSE, val |-> n]

\* parseFloat(val): the number the string of val starts with
ParseFloat(cell) ==
  IF cell.t = "num" THEN Finite(cell.n)
  ELSE LET prefix == DigitPrefix(StringOf(cell))
       IN  IF prefix = <<>> THEN NaN ELSE Finite(DigitsValue(prefix))

\* Number(val): null and the empty string are 0, a string must be a number as a whole
ToNumber(cell) ==
  CASE cell.t = "num" -> Finite(cell.n)
    [] cell.t = "null" -> Finite(0)
    [] cell.t = "str" ->
         IF cell.s = <<>> THEN Finite(0)
         ELSE IF \A i \in 1..Len(cell.s) : IsDigit(cell.s[i]) THEN Finite(DigitsValue(cell.s))
         ELSE NaN

\* The order of the UTF-16 code units, which < and > on strings follow.
CodeUnits == <<"-", "0", "1", "2", "3", "4", "5", "6", "7", "8", "9", "A", "B", "a", "b",
               "l", "n", "u">>
Alphabet == {CodeUnits[i] : i \in 1..Len(CodeUnits)}
CodeUnit(c) == CHOOSE i \in 1..Len(CodeUnits) : CodeUnits[i] = c

\* s < t on strings
RECURSIVE StringLess(_, _)
StringLess(s, t) ==
  IF t = <<>> THEN FALSE
  ELSE IF s = <<>> THEN TRUE
  ELSE IF Head(s) = Head(t) THEN StringLess(Tail(s), Tail(t))
  ELSE CodeUnit(Head(s)) < CodeUnit(Head(t))

\* a.localeCompare(b): the letters and digits compare without their case first;
\* strings equal up to case are ordered by the first difference, lower case first.
RECURSIVE CaseCompare(_, _)
CaseCompare(s, t) ==
  IF s = <<>> \/ t = <<>> THEN 0
  ELSE IF Head(s) = Head(t) THEN CaseCompare(Tail(s), Tail(t))
  ELSE IF LowerChar(Head(s)) = Head(s) THEN -1 ELSE 1

LocaleCompare(s, t) ==
  IF StringLess(ToLowerCase(s), ToLowerCase(t)) THEN -1
  ELSE IF StringLess(ToLowerCase(t), ToLowerCase(s)) THEN 1
  ELSE CaseCompare(s, t)

Keys == {"name", "v"}

\* The rows a dataset of the model is made of.
SampleRows ==
  { [name |-> Str(<<"a">>), v |-> Num(2)],
    [name |-> Str(<<"b", "b">>), v |-> Num(10)],
    [name |-> Str(<<"B">>), v |-> Str(<<"9">>)],
    [name |-> Null, v |-> Str(<<"b">>)] }

Datasets == UNION {[1..n -> SampleRows] : n \in 0..MaxData}

\* The column filters of the model's queries.
SetFilter(values) == [kind |-> "set", values |-> values]
TextFilter(value) == [kind |-> "text", value |-> value]
DateRangeFilter(start, end) == [kind |-> "dateRange", start |-> start, end |-> end]
NumberRangeFilter(hasMin, min, hasMax, max) ==
  [kind |-> "numberRange", hasMin |-> hasMin, min |-> min, hasMax |-> hasMax, max |-> max]

NoFilters == <<>>
OnName(filter) == [k \in {"name"} |-> filter]
OnV(filter) == [k \in {"v"} |-> filter]

SetFilterMaps ==
  { OnName(SetFilter({<<"b", "b">>, <<"B">>})),
    OnName(SetFilter({})),
    OnName(SetFilter({<<>>, <<"a">>})),
    OnV(SetFilter({<<"9">>, <<"2">>})),
    [k \in Keys |-> IF k = "name" THEN SetFilter({<<"a">>, <<"B">>})
                                  ELSE SetFilter({<<"2">>, <<"1", "0">>})] }
NumberRangeFilterMaps ==
  { OnV(NumberRangeFilter(TRUE, 2, TRUE, 9)),
    OnV(NumberRangeFilter(TRUE, 9, FALSE, 0)),
    OnV(NumberRangeFilter(FALSE, 0, TRUE, 9)),
    OnV(NumberRangeFilter(FALSE, 0, FALSE, 0)) }
OtherFilterMaps ==
  { OnName(TextFilter(<<"B">>)),
    OnName(DateRangeFilter(<<"a">>, <<>>)) }

Sorts == { [key |-> None, direction |-> None],
           [key |-> "v", direction |-> "asc"],
           [key |-> "v", direction |-> "desc"],
           [key |-> "name", direction |-> "asc"] }
FilterTexts == { <<>>, <<"B">>, <<"1">> }

Query(text, filters, sort) ==
  [filterText |-> text, columnFilters |-> filters,
   sortKey |-> sort.key, sortDirection |-> sort.direction]

\* The queries of the model: a global text, set filters and a sort in every
\* combination, and each other kind of column filter alone and with a sort.
ClientQueries ==
  {Query(t, f, s) : t \in FilterTexts, f \in SetFilterMaps \cup {NoFilters}, s \in Sorts}
  \cup {Query(<<>>, f, s) : f \in NumberRangeFilterMaps \cup OtherFilterMaps, s \in Sorts}

\* matchesColumnFilters, the test of one key
MatchesNumberRange(filter, cellVal) ==
  LET num == ToNumber(cellVal)
  IN  /\ ~num.nan
      /\ ~(filter.hasMin /\ num.val < filter.min)
      /\ ~(filter.hasMax /\ num.val < filter.max)

MatchesColumnFilter(filter, cellVal) ==
  CASE filter.kind = "set" ->
         filter.values = {} \/ StringOf(OrEmpty(cellVal)) \in filter.values
    [] filter.kind = "text" ->
         \/ filter.value = <<>>
         \/ Includes(ToLowerCase(StringOf(OrEmpty(cellVal))), ToLowerCase(filter.value))
    [] filter.kind = "dateRange" ->
         LET dateStr == StringOf(OrEmpty(cellVal))
         IN  /\ ~(filter.start # <<>> /\ StringLess(dateStr, filter.start))
             /\ ~(filter.end # <<>> /\ StringLess(filter.end, dateStr))
    [] filter.kind = "numberRange" -> MatchesNumberRange(filter, cellVal)
    [] OTHER -> TRUE

\* matchesColumnFilters(row, columnFilters)
MatchesColumnFilters(row, columnFilters) ==
  \A key \in DOMAIN columnFilters : MatchesColumnFilter(columnFilters[key], row[key])

\* a global filter that tells upper case from lower case
MatchesFilterTextExactCase(row, filterText) ==
  \E key \in DOMAIN row : Includes(StringOf(row[key]), filterText)

\* the global filter: some value of the row contains the text, both in lower case
MatchesFilterText(row, filterText) ==
  LET text == ToLowerCase(filterText)
  IN  \E key \in DOMAIN row : Includes(ToLowerCase(StringOf(row[key])), text)

\* applyFilters(data, query); Array.prototype.filter keeps the order
ApplyFilters(data, query) ==
  LET TextTest(row) == MatchesFilterText(row, query.filterText)
      ColumnTest(row) == MatchesColumnFilters(row, query.columnFilters)
      afterText == IF query.filterText # <<>> THEN SelectSeq(data, TextTest) ELSE data
  IN  SelectSeq(afterText, ColumnTest)

\* a comparator that compares every pair of cells as strings
SortCompareAsStrings(a, b, sortKey, sortDirection) ==
  IF sortDirection = "asc" THEN LocaleCompare(StringOf(a[sortKey]), StringOf(b[sortKey]))
                           ELSE LocaleCompare(StringOf(b[sortKey]), StringOf(a[sortKey]))

\* the comparator of applySort
SortCompare(a, b, sortKey, sortDirection) ==
  LET aNum == ParseFloat(a[sortKey])
      bNum == ParseFloat(b[sortKey])
      aStr == StringOf(a[sortKey])
      bStr == StringOf(b[sortKey])
  IN  IF ~aNum.nan /\ ~bNum.nan
        THEN IF sortDirection = "asc" THEN aNum.val - bNum.val ELSE bNum.val - aNum.val
        ELSE IF sortDirection = "asc" THEN LocaleCompare(aStr, bStr)
                                      ELSE LocaleCompare(bStr, aStr)

\* Array.prototype.sort is stable: a row goes behind the last row that does not
\* compare greater than it.
RECURSIVE InsertRow(_, _, _, _)
InsertRow(sorted, row, sortKey, sortDirection) ==
  IF sorted = <<>> THEN <<row>>
  ELSE IF SortCompare(sorted[Len(sorted)], row, sortKey, sortDirection) > 0
    THEN InsertRow(SubSeq(sorted, 1, Len(sorted) - 1), row, sortKey, sortDirection)
           \o <<sorted[Len(sorted)]>>
    ELSE Append(sorted, row)

RECURSIVE SortRows(_, _, _)
SortRows(data, sortKey, sortDirection) ==
  IF data = <<>> THEN <<>>
  ELSE InsertRow(SortRows(SubSeq(data, 1, Len(data) - 1), sortKey, sortDirection),
                 data[Len(data)], sortKey, sortDirection)

\* applySort(data, sortKey, sortDirection)
ApplySort(data, sortKey, sortDirection) == SortRows(data, sortKey, sortDirection)

\* The same, a query that is applied again turning the sorted view round.
QueryResultTurningRound(data, query) ==
  IF query = clientQuery /\ query.sortKey # None
  THEN [i \in 1..Len(filteredData) |-> filteredData[Len(filteredData) + 1 - i]]
  ELSE LET filtered == ApplyFilters(data, query)
       IN  IF query.sortKey # None /\ query.sortDirection # None
             THEN ApplySort(filtered, query.sortKey, query.sortDirection)
             ELSE filtered

\* applyQuery(query): the new filteredData
QueryResult(data, query) ==
  LET filtered == ApplyFilters(data, query)
  IN  IF query.sortKey # None /\ query.sortDirection # None
        THEN ApplySort(filtered, query.sortKey, query.sortDirection)
        ELSE filtered

\* The same with the current view in the place of the full data.
FilterSourceIsView == filteredData

\* The array applyQuery filters: this.fullData
FilterSource == fullData

ClientApplyQuery(query) ==
  /\ clientQuery' = query
  /\ filteredData' = QueryResult(FilterSource, query)
  /\ UNCHANGED fullData
  /\ UNCHANGED notClient

\* getTotalRows() / getRow(rowIndex)
GetTotalRows == Len(filteredData)
GetRow(rowIndex) == filteredData[rowIndex + 1]

\* currentQuery: ITableQuery = {}
EmptyQuery == Query(<<>>, NoFilters, [key |-> None, direction |-> None])

\* new ClientDataStrategy(initialData, columns)
InitClient ==
  /\ OthersIdle
  /\ ServerIdle
  /\ TableIdle
  /\ ColumnsIdle
  /\ fullData \in Datasets
  /\ filteredData = fullData
  /\ clientQuery = EmptyQuery

NextClient == \E query \in ClientQueries : ClientApplyQuery(query)

SpecClient == InitClient /\ [][NextClient]_vars

(***************************************************************************)
(* Claims about the in-memory strategy.                                    *)
(***************************************************************************)
OnlySetFilters(query) ==
  \A key \in DOMAIN query.columnFilters : query.columnFilters[key].kind = "set"

PassesGlobalText(row, text) ==
  \/ text = <<>>
  \/ \E key \in Keys : Includes(ToLowerCase(StringOf(row[key])), ToLowerCase(text))

PassesSetFilters(row, filters) ==
  \A key \in DOMAIN filters :
    \/ filters[key].values = {}
    \/ StringOf(OrEmpty(row[key])) \in filters[key].values

\* the positions in fullData of the rows that pass the current query
PassingIndices ==
  { i \in 1..Len(fullData) :
      /\ PassesGlobalText(fullData[i], clientQuery.filterText)
      /\ PassesSetFilters(fullData[i], clientQuery.columnFilters) }

\* the j-th smallest member of a set of positions
NthOf(indices, j) == CHOOSE i \in indices : Cardinality({m \in indices : m <= i}) = j

\* C6: after applyQuery(q) without a sort, with a global filter text and set
\* column filters, getTotalRows() is the number of rows of the full dataset
\* that pass the text (some stringified cell contains it, case-insensitively)
\* and every set filter (an empty value set passes every row), and
\* getRow(0..getTotalRows()-1) returns exactly those rows in their original
\* relative order.
C6_FilteredRowsInOrder ==
  (clientQuery.sortKey = None /\ OnlySetFilters(clientQuery)) =>
    /\ GetTotalRows = Cardinality(PassingIndices)
    /\ \A rowIndex \in 0..(GetTotalRows - 1) :
         GetRow(rowIndex) = fullData[NthOf(PassingIndices, rowIndex + 1)]

C6_Witness ==
  /\ clientQuery.sortKey = None
  /\ clientQuery.filterText # <<>>
  /\ DOMAIN clientQuery.columnFilters # {}
  /\ OnlySetFilters(clientQuery)
  /\ GetTotalRows >= 2
  /\ GetTotalRows < Len(fullData)
  /\ \E i \in 1..Len(fullData) :
       /\ PassesGlobalText(fullData[i], clientQuery.filterText)
       /\ ~PassesSetFilters(fullData[i], clientQuery.columnFilters)

IsNumberRangeQuery(query) ==
  /\ query.filterText = <<>>
  /\ DOMAIN query.columnFilters # {}
  /\ \A key \in DOMAIN query.columnFilters : query.columnFilters[key].kind = "numberRange"

\* x is numeric and min <= x <= max, a bound that is not given imposing nothing
InNumberRange(filter, cellVal) ==
  /\ ~ToNumber(cellVal).nan
  /\ filter.hasMin => filter.min <= ToNumber(cellVal).val
  /\ filter.hasMax => ToNumber(cellVal).val <= filter.max

\* C7: a numberRange column filter {min?, max?} passes a row iff the cell value
\* x is numeric and min <= x <= max, where a bound that is not given imposes
\* no restriction.
C7_NumberRangePasses ==
  IsNumberRangeQuery(clientQuery) =>
    \A i \in 1..Len(fullData) :
      (\E j \in 1..Len(filteredData) : filteredData[j] = fullData[i])
        <=> \A key \in DOMAIN clientQuery.columnFilters :
              InNumberRange(clientQuery.columnFilters[key], fullData[i][key])

\* every cell of the column parses to a finite number
NumericColumn(key) == \A i \in 1..Len(fullData) : ~ParseFloat(fullData[i][key]).nan

Occurrences(data, row) == Cardinality({i \in 1..Len(data) : data[i] = row})

\* C8: after applyQuery with a sort {key, direction} on a column whose cells all
\* parse to finite numbers, the rows of getRow(0..n-1) are a permutation of the
\* rows the filters let through, non-decreasing by the column's numeric value
\* for 'asc' and non-increasing for 'desc', and the number of rows is the
\* number the filters let through.
C8_NumericSortPermutes ==
  (clientQuery.sortKey # None /\ NumericColumn(clientQuery.sortKey)) =>
    LET passed == ApplyFilters(fullData, clientQuery)
        value(rowIndex) == ParseFloat(GetRow(rowIndex)[clientQuery.sortKey]).val
    IN  /\ GetTotalRows = Len(passed)
        /\ \A row \in SampleRows : Occurrences(filteredData, row) = Occurrences(passed, row)
        /\ \A i, j \in 0..(GetTotalRows - 1) :
             i < j => IF clientQuery.sortDirection = "asc" THEN value(i) <= value(j)
                                                           ELSE value(i) >= value(j)

C8_Witness ==
  /\ clientQuery.sortKey # None
  /\ NumericColumn(clientQuery.sortKey)
  /\ GetTotalRows >= 3
  /\ filteredData # ApplyFilters(fullData, clientQuery)
  /\ \E i \in 0..(GetTotalRows - 1) : GetRow(i)[clientQuery.sortKey].t = "str"

C28_FullDataKept ==
  [][/\ fullData' = fullData
     /\ filteredData' = QueryResult(fullData, clientQuery')
     /\ clientQuery' = EmptyQuery =>
          /\ Len(filteredData') = Len(fullData)
          /\ \A i \in 1..Len(fullData) : filteredData'[i] = fullData[i]]_vars

\* A sort on the numbers alone is in force and shows all three rows in another
\* order than the full data, which still has them as they were constructed.
C28_Witness ==
  /\ clientQuery.sortKey = "v"
  /\ clientQuery.filterText = <<>>
  /\ GetTotalRows = 3
  /\ Len(fullData) = 3
  /\ filteredData # fullData
  /\ filteredData = ApplySort(fullData, "v", clientQuery.sortDirection)

(***************************************************************************)
(* The columns.  A column is its key and its width; state.columns is       *)
(* order, widthOverrides (a map from some keys to widths), hiddenKeys and  *)
(* frozenCount.                                                            *)
(***************************************************************************)
ColumnKeys == {"a", "b", "c"}
UnknownKey == "x"
Widths == {0, 1, 3}

Column(key) == [key |-> key, width |-> IF key = "a" THEN 2 ELSE 4]

\* the lists without duplicates of members of S
KeyLists(S) ==
  { list \in UNION {[1..n -> S] : n \in 0..Cardinality(S)} :
      \A i, j \in 1..Len(list) : list[i] = list[j] => i = j }

ColumnLists == { [i \in 1..Len(keys) |-> Column(keys[i])] : keys \in KeyLists(ColumnKeys) }

KeysOf(columns) == [i \in 1..Len(columns) |-> columns[i].key]
KeySet(columns) == {columns[i].key : i \in 1..Len(columns)}
Members(list) == {list[i] : i \in 1..Len(list)}

\* the maps from some of the keys to a width
WidthMaps(S) == UNION {[D -> Widths] : D \in SUBSET S}

ColumnState == [order |-> order, widthOverrides |-> widthOverrides,
                hiddenKeys |-> hiddenKeys, frozenCount |-> frozenCount]

\* the last map.set of a key wins
MapGet(columns, key) ==
  columns[CHOOSE i \in 1..Len(columns) :
            /\ columns[i].key = key
            /\ \A j \in 1..Len(columns) : columns[j].key = key => j <= i]

\* ordered.map((col, index) => ({...col, width, isFrozen}))
WithWidthAndFrozen(ordered, state) ==
  [i \in 1..Len(ordered) |->
     [key |-> ordered[i].key,
      width |-> IF ordered[i].key \in DOMAIN state.widthOverrides
                  THEN state.widthOverrides[ordered[i].key] ELSE ordered[i].width,
      isFrozen |-> (i - 1) < state.frozenCount]]

\* the columns of the order that are in the map, then the columns the order lacks
OrderedColumns(columns, orderKeys) ==
  LET InMap(key) == key \in KeySet(columns)
      found == SelectSeq(orderKeys, InMap)
      ordered == [i \in 1..Len(found) |-> MapGet(columns, found[i])]
      Lacking(col) == col.key \notin Members(found)
  IN  IF Len(ordered) # Len(columns) THEN ordered \o SelectSeq(columns, Lacking)
                                     ELSE ordered

\* resolveColumns of src/src/table/model/ColumnModel.ts, which does not read hiddenKeys
resolveColumnsOfColumnModel(original, state) ==
  WithWidthAndFrozen(OrderedColumns(original, state.order), state)

\* resolveColumns of src/unnamed/part_007
resolveColumns(original, state) ==
  LET Visible(col) == col.key \notin state.hiddenKeys
      VisibleKey(key) == key \notin state.hiddenKeys
      visibleColumns == SelectSeq(original, Visible)
      visibleOrder == SelectSeq(state.order, VisibleKey)
  IN  WithWidthAndFrozen(OrderedColumns(visibleColumns, visibleOrder), state)

ResolveColumns ==
  /\ resolved' = [by |-> "part_007", columns |-> resolveColumns(originalColumns, ColumnState)]
  /\ UNCHANGED <<originalColumns, order, widthOverrides, hiddenKeys, frozenCount,
                 configColumns, configFrozenColumns>>
  /\ UNCHANGED notColumns

ResolveColumnsOfColumnModel ==
  /\ resolved' = [by |-> "ColumnModel.ts",
                  columns |-> resolveColumnsOfColumnModel(originalColumns, ColumnState)]
  /\ UNCHANGED <<originalColumns, order, widthOverrides, hiddenKeys, frozenCount,
                 configColumns, configFrozenColumns>>
  /\ UNCHANGED notColumns

\* the position of a key in a list that holds it
PositionIn(list, key) == CHOOSE i \in 1..Len(list) : list[i] = key

\* TableStateSync.applyColumnsFromState: the new config.columns
ColumnsFromState(original, state) ==
  LET Known(key) == key \in KeySet(original)
      found == SelectSeq(state.order, Known)
      orderedColumns ==
        [i \in 1..Len(found) |->
           LET col == original[PositionIn(KeysOf(original), found[i])]
           IN  IF col.key \in DOMAIN state.widthOverrides /\ state.widthOverrides[col.key] # 0
                 THEN [col EXCEPT !.width = state.widthOverrides[col.key]]
                 ELSE col]
      Visible(col) == col.key \notin state.hiddenKeys
  IN  SelectSeq(orderedColumns, Visible)

\* updateColumnUI: this.stateSync.applyColumnsFromState() writes config.columns
\* and config.frozenColumns
ApplyColumnsFromState ==
  /\ configColumns' = ColumnsFromState(originalColumns, ColumnState)
  /\ configFrozenColumns' = frozenCount
  /\ UNCHANGED <<originalColumns, order, widthOverrides, hiddenKeys, frozenCount, resolved>>
  /\ UNCHANGED notColumns

\* Any original columns with unique keys and any column state whose order is
\* a list without duplicates of known keys.
InitResolve ==
  /\ OthersIdle
  /\ ServerIdle
  /\ TableIdle
  /\ ClientIdle
  /\ originalColumns \in ColumnLists
  /\ order \in KeyLists(KeySet(originalColumns))
  /\ hiddenKeys \in SUBSET KeySet(originalColumns)
  /\ widthOverrides \in WidthMaps(KeySet(originalColumns))
  /\ frozenCount \in 0..Len(originalColumns)
  /\ configColumns = originalColumns
  /\ configFrozenColumns = frozenCount
  /\ resolved = Unresolved

NextResolve == ResolveColumns \/ ResolveColumnsOfColumnModel \/ ApplyColumnsFromState

SpecResolve == InitResolve /\ [][NextResolve]_vars

\* What a result of resolveColumns has to be for the columns and the state.
MeetsResolveContract(result) ==
  LET visibleKeys == KeySet(originalColumns) \ hiddenKeys
      inOrder == Members(order)
      originalKeys == KeysOf(originalColumns)
  IN  /\ Len(result) = Cardinality(visibleKeys)
      /\ KeySet(result) = visibleKeys
      /\ \A i, j \in 1..Len(result) :
           i < j =>
             /\ (result[i].key \in inOrder /\ result[j].key \in inOrder) =>
                  PositionIn(order, result[i].key) < PositionIn(order, result[j].key)
             /\ result[i].key \notin inOrder =>
                  /\ result[j].key \notin inOrder
                  /\ PositionIn(originalKeys, result[i].key)
                       < PositionIn(originalKeys, result[j].key)
      /\ \A i \in 1..Len(result) :
           /\ result[i].width =
                IF result[i].key \in DOMAIN widthOverrides
                  THEN widthOverrides[result[i].key]
                  ELSE originalColumns[PositionIn(originalKeys, result[i].key)].width
           /\ result[i].isFrozen <=> (i - 1) < frozenCount

\* C9: for original columns with unique keys and a column state whose order is
\* a list without duplicates of known keys, resolveColumns returns exactly the
\* original columns whose key is not in hiddenKeys, each once: first those
\* named in the order, in that order, then the other visible columns in
\* original order; each with the width of its override when there is one and
\* its original width otherwise, and frozen iff its index is below frozenCount.
C9_ResolveColumnsContract ==
  resolved.by # None => MeetsResolveContract(resolved.columns)

\* C9 of the resolveColumns of src/unnamed/part_007 alone: that one keeps the
\* contract.
C9_ContractOfPart007 ==
  resolved.by = "part_007" => MeetsResolveContract(resolved.columns)

\* what the two have in common: the keys in sequence and the widths
KeysAndWidths(columns) ==
  [i \in 1..Len(columns) |-> [key |-> columns[i].key, width |-> columns[i].width]]
FrozenIn(columns) == Cardinality({i \in 1..Len(columns) : columns[i].isFrozen})

ConfigMatchesResolved(columns, frozen, state) ==
  /\ KeysAndWidths(columns) = KeysAndWidths(resolveColumns(originalColumns, state))
  /\ frozen = FrozenIn(resolveColumns(originalColumns, state))

\* C26: for every column state whose order is a list without duplicates of
\* known keys, complete or partial, applyColumnsFromState writes into
\* config.columns the columns resolveColumns returns for that state, with the
\* same keys in the same sequence and the same widths, and into
\* config.frozenColumns the number of columns resolveColumns marks frozen.
C26_ConfigIsResolvedColumns ==
  [][ApplyColumnsFromState =>
       ConfigMatchesResolved(configColumns', configFrozenColumns', ColumnState)]_vars

\* C26 for the states the reducer produces from the initial one: a complete
\* order, overrides of at least 1 and a frozenCount within the visible columns
C26_ForCompleteStates ==
  [][(/\ ApplyColumnsFromState
      /\ Members(order) = KeySet(originalColumns)
      /\ \A key \in DOMAIN widthOverrides : widthOverrides[key] >= 1
      /\ frozenCount <= Cardinality(KeySet(originalColumns) \ hiddenKeys)) =>
       ConfigMatchesResolved(configColumns', configFrozenColumns', ColumnState)]_vars

(***************************************************************************)
(* The store's reducer over state.columns, and the TableStateSync that     *)
(* follows every column action.                                            *)
(***************************************************************************)

\* COLUMN_HIDE / COLUMN_SHOW / COLUMN_BATCH_HIDE / COLUMN_BATCH_SHOW
HiddenAfterHide(hidden, keys) == hidden \cup keys
HiddenAfterShow(hidden, keys) == hidden \ keys

\* COLUMN_ORDER_SET: unknown keys are dropped, missing known keys are appended
OrderAfterSet(original, payload) ==
  LET Known(key) == key \in KeySet(original)
      Missing(key) == key \notin Members(payload)
  IN  SelectSeq(payload, Known) \o SelectSeq(KeysOf(original), Missing)

\* COLUMN_RESIZE: a width below 1 is clamped to 1
OverridesAfterResize(overrides, key, width) ==
  [k \in DOMAIN overrides \cup {key} |->
     IF k = key THEN (IF width < 1 THEN 1 ELSE width) ELSE overrides[k]]

\* dispatch of a column action: the reducer, then applyColumnsFromState
ColumnAction(newOrder, newOverrides, newHidden, newFrozen) ==
  /\ order' = newOrder
  /\ widthOverrides' = newOverrides
  /\ hiddenKeys' = newHidden
  /\ frozenCount' = newFrozen
  /\ configColumns' = ColumnsFromState(originalColumns,
                        [order |-> newOrder, widthOverrides |-> newOverrides,
                         hiddenKeys |-> newHidden, frozenCount |-> newFrozen])
  /\ configFrozenColumns' = newFrozen
  /\ UNCHANGED <<originalColumns, resolved>>
  /\ UNCHANGED notColumns

ColumnHide(key) ==
  ColumnAction(order, widthOverrides, HiddenAfterHide(hiddenKeys, {key}), frozenCount)

ColumnShow(key) ==
  ColumnAction(order, widthOverrides, HiddenAfterShow(hiddenKeys, {key}), frozenCount)

ColumnBatchHide(keys) ==
  ColumnAction(order, widthOverrides, HiddenAfterHide(hiddenKeys, keys), frozenCount)

ColumnBatchShow(keys) ==
  ColumnAction(order, widthOverrides, HiddenAfterShow(hiddenKeys, keys), frozenCount)

ColumnsResetVisibility == ColumnAction(order, widthOverrides, {}, frozenCount)

ColumnOrderSet(payload) ==
  ColumnAction(OrderAfterSet(originalColumns, payload), widthOverrides, hiddenKeys, frozenCount)

SetFrozenCount(count) == ColumnAction(order, widthOverrides, hiddenKeys, count)

ColumnResize(key, width) ==
  ColumnAction(order, OverridesAfterResize(widthOverrides, key, width), hiddenKeys, frozenCount)

\* createTableStore({columns, frozenCount: config.frozenColumns}), then
\* syncColumnOrderToState
InitColumns ==
  /\ OthersIdle
  /\ ServerIdle
  /\ TableIdle
  /\ ClientIdle
  /\ originalColumns \in ColumnLists \ {<<>>}
  /\ order = OrderAfterSet(originalColumns, KeysOf(originalColumns))
  /\ widthOverrides = <<>>
  /\ hiddenKeys = {}
  /\ frozenCount \in 0..Len(originalColumns)
  /\ configColumns = originalColumns
  /\ configFrozenColumns = frozenCount
  /\ resolved = Unresolved

NextColumns ==
  \/ \E key \in KeySet(originalColumns) : ColumnHide(key)
  \/ \E key \in KeySet(originalColumns) : ColumnShow(key)
  \/ \E keys \in SUBSET KeySet(originalColumns) : ColumnBatchHide(keys)
  \/ \E keys \in SUBSET KeySet(originalColumns) : ColumnBatchShow(keys)
  \/ ColumnsResetVisibility
  \/ \E payload \in KeyLists(KeySet(originalColumns) \cup {UnknownKey}) : ColumnOrderSet(payload)
  \/ \E count \in 0..Cardinality(KeySet(originalColumns) \ hiddenKeys) : SetFrozenCount(count)
  \/ \E key \in KeySet(originalColumns), width \in Widths : ColumnResize(key, width)

SpecColumns == InitColumns /\ [][NextColumns]_vars

\* C10: in every state reachable from the initial state by column hide/show,
\* batch hide/show, reset visibility, order set, frozen count set and resize,
\* columns.order contains only known column keys and frozenCount is at most
\* the number of currently visible columns.
C10_ColumnStateInvariant ==
  /\ Members(order) \subseteq KeySet(originalColumns)
  /\ frozenCount <= Cardinality(KeySet(originalColumns) \ hiddenKeys)

\* the first half of C10, which the reducer keeps
OrderHoldsOnlyKnownKeys == Members(order) \subseteq KeySet(originalColumns)

(***************************************************************************)
(* The pivot table: PivotDataProcessor builds the tree of the data,        *)
(* PivotTreeNode.flattenTree turns it into rows, PivotTable shows a window *)
(* of them.                                                                *)
(***************************************************************************)
MaxPivotRows == 3
MaxScrollRows == 16

ROW_HEIGHT == 32
BUFFER_ROWS == 10

\* The rows a pivot dataset of the model is made of.
PivotSampleList ==
  << [region |-> Str(<<"N">>), product |-> Str(<<"X">>), sales |-> Num(10)],
     [region |-> Str(<<"N">>), product |-> Str(<<"Y">>), sales |-> Num(20)],
     [region |-> Str(<<"S">>), product |-> Str(<<"X">>), sales |-> Str(<<"3", "0">>)],
     [region |-> Str(<<"S">>), product |-> Str(<<"Y">>), sales |-> Str(<<"a">>)] >>
PivotSampleRows == {PivotSampleList[i] : i \in DOMAIN PivotSampleList}

PivotDatasets == UNION {[1..n -> PivotSampleRows] : n \in 0..MaxPivotRows}

RowGroupLists == {<<"region">>, <<"region", "product">>}

\* pivotConfig.valueFields
ValueField == "sales"
Aggregations == {"sum", "count"}

\* Node ids: `${parentId}-g${level}-${index}`, `${parentId}-data-${i}`,
\* `${id}-subtotal`, as the list of their parts.
IdPart(kind, a, b) == [kind |-> kind, a |-> a, b |-> b]
RootId == <<IdPart("root", 0, 0)>>
GrandTotalId == <<IdPart("grand-total", 0, 0)>>
SubtotalId(id) == id \o <<IdPart("subtotal", 0, 0)>>

SubtotalMark == Str(<<"__SUBTOTAL__">>)
SubtotalLabel == Str(<<"subtotal-label">>)
GrandTotalLabel == Str(<<"grand-total-label">>)

createGroupNode(id, level, groupValue, aggregatedData, rowCount) ==
  [id |-> id, type |-> "group", level |-> level, groupValue |-> groupValue,
   aggregatedData |-> aggregatedData, children |-> <<>>, isExpanded |-> FALSE,
   rowCount |-> rowCount]

createDataNode(id, level, rawRow) ==
  [id |-> id, type |-> "data", level |-> level, groupValue |-> Null,
   aggregatedData |-> rawRow, children |-> <<>>, isExpanded |-> FALSE, rowCount |-> 1]

\* The keys of the Map of groupByField, in the order of their first row.
RECURSIVE GroupValues(_, _)
GroupValues(data, fieldKey) ==
  IF data = <<>> THEN <<>>
  ELSE LET before == GroupValues(SubSeq(data, 1, Len(data) - 1), fieldKey)
           value == data[Len(data)][fieldKey]
       IN  IF \E i \in 1..Len(before) : before[i] = value THEN before
           ELSE Append(before, value)

\* groups.get(value)
GroupRows(data, fieldKey, value) ==
  LET InGroup(row) == row[fieldKey] = value IN SelectSeq(data, InGroup)

RECURSIVE SumOf(_)
SumOf(values) == IF values = <<>> THEN 0 ELSE Head(values) + SumOf(Tail(values))

\* rows.map(row => Number(row[fieldKey])).filter(v => !isNaN(v))
NumericValues(rows, fieldKey) ==
  LET numbers == [i \in 1..Len(rows) |-> ToNumber(rows[i][fieldKey])]
      IsNumber(v) == ~v.nan
      kept == SelectSeq(numbers, IsNumber)
  IN  [i \in 1..Len(kept) |-> kept[i].val]

\* The same with the row count in the place of the sum.
aggregateCountingRows(rows, fieldKey, aggregation) == Len(rows)

\* aggregate for 'count' and 'sum'
aggregate(rows, fieldKey, aggregation) ==
  IF aggregation = "count" THEN Len(rows)
  ELSE LET values == NumericValues(rows, fieldKey)
       IN  IF Len(values) = 0 THEN 0
           ELSE IF aggregation = "sum" THEN SumOf(values)
           ELSE 0

computeAggregatedData(rows, groupKey, groupValue, aggregation) ==
  (groupKey :> groupValue) @@ (ValueField :> Num(aggregate(rows, ValueField, aggregation)))

computeRootAggregatedData(data, aggregation) ==
  (ValueField :> Num(aggregate(data, ValueField, aggregation)))

RECURSIVE buildSubTree(_, _, _, _, _)
buildSubTree(data, groups, level, parentId, aggregation) ==
  IF level >= Len(groups)
  THEN [i \in 1..Len(data) |->
          createDataNode(parentId \o <<IdPart("data", 0, i - 1)>>, level, data[i])]
  ELSE LET groupKey == groups[level + 1]
           values == GroupValues(data, groupKey)
       IN  [index \in 1..Len(values) |->
              LET rows == GroupRows(data, groupKey, values[index])
                  nodeId == parentId \o <<IdPart("g", level, index - 1)>>
                  groupNode == createGroupNode(nodeId, level, values[index],
                                 computeAggregatedData(rows, groupKey, values[index],
                                                       aggregation),
                                 Len(rows))
              IN  [groupNode EXCEPT
                     !.children = buildSubTree(rows, groups, level + 1, nodeId,
                                               aggregation)]]

buildPivotTree(data, groups, aggregation) ==
  [id |-> RootId, type |-> "group", level |-> -1, groupValue |-> Null,
   aggregatedData |-> computeRootAggregatedData(data, aggregation),
   children |-> buildSubTree(data, groups, 0, RootId, aggregation),
   isExpanded |-> TRUE, rowCount |-> Len(data)]

Reversed(s) == [i \in 1..Len(s) |-> s[Len(s) + 1 - i]]

FlatRow(node) ==
  [nodeId |-> node.id, type |-> node.type, rowType |-> "nomal", level |-> node.level,
   data |-> node.aggregatedData, isExpanded |-> node.isExpanded,
   rowCount |-> node.rowCount, groupVale |-> node.groupValue]

\* The placeholder flattenTree pushes for the subtotal of an expanded group.
SubtotalNode(current) ==
  [current EXCEPT !.id = SubtotalId(current.id), !.type = "group", !.children = <<>>,
                  !.isExpanded = FALSE, !.groupValue = SubtotalMark]

\* The while loop of flattenTree: the top of the stack is its last element.
RECURSIVE FlattenLoop(_, _)
FlattenLoop(stack, result) ==
  IF stack = <<>> THEN result
  ELSE LET current == stack[Len(stack)]
           rest == SubSeq(stack, 1, Len(stack) - 1)
       IN  IF current.level = -1
           THEN FlattenLoop(rest \o Reversed(current.children), result)
           ELSE IF current.type = "group" /\ current.isExpanded
           THEN FlattenLoop(rest \o Reversed(current.children)
                                 \o <<SubtotalNode(current)>>,
                            Append(result, FlatRow(current)))
           ELSE FlattenLoop(rest, Append(result, FlatRow(current)))

GrandTotalRow(node) ==
  [nodeId |-> GrandTotalId, type |-> "group", rowType |-> "grandtotal", level |-> 0,
   data |-> node.aggregatedData, isExpanded |-> FALSE, rowCount |-> node.rowCount,
   groupVale |-> GrandTotalLabel]

flattenTree(node) ==
  LET rows == FlattenLoop(<<node>>, <<>>)
      result == IF Len(rows) > 0 THEN Append(rows, GrandTotalRow(node)) ELSE rows
  IN  [i \in 1..Len(result) |->
         IF result[i].groupVale = SubtotalMark
         THEN [result[i] EXCEPT !.rowType = "subtotal", !.groupVale = SubtotalLabel]
         ELSE result[i]]

\* (a variant that expands the node whatever its state)
ToggledToExpanded(node) == [node EXCEPT !.isExpanded = TRUE]

\* root.isExpanded = !root.isExpanded
Toggled(node) == [node EXCEPT !.isExpanded = ~node.isExpanded]

\* PivotTreeNode.toggleNode: node ids are unique, so the first match is the only one.
RECURSIVE toggleNode(_, _)
toggleNode(root, nodeId) ==
  IF root.id = nodeId THEN Toggled(root)
  ELSE [root EXCEPT
          !.children = [i \in 1..Len(root.children) |-> toggleNode(root.children[i], nodeId)]]

RECURSIVE setAllNodesExpanded(_, _)
setAllNodesExpanded(node, expanded) ==
  [node EXCEPT
     !.isExpanded = IF node.level = -1 THEN TRUE
                    ELSE IF node.type = "group" THEN expanded
                    ELSE node.isExpanded,
     !.children = [i \in 1..Len(node.children) |->
                     setAllNodesExpanded(node.children[i], expanded)]]

\* Math.floor(a / b) and Math.ceil(a / b) for a >= 0, b > 0
Floor(a, b) == a \div b
Ceil(a, b) == (a + b - 1) \div b

\* The window of updateVisibleRows, no window when there are no rows.
VisibleWindow(top, viewportHeight, rows) ==
  IF rows = 0 THEN <<>>
  ELSE LET startRow == IF Floor(top, ROW_HEIGHT) - BUFFER_ROWS > 0
                       THEN Floor(top, ROW_HEIGHT) - BUFFER_ROWS ELSE 0
           last == Ceil(top + viewportHeight, ROW_HEIGHT) + BUFFER_ROWS
           endRow == IF last < rows - 1 THEN last ELSE rows - 1
       IN  <<[scrollTop |-> top, viewportHeight |-> viewportHeight, totalRows |-> rows,
              startRow |-> startRow, endRow |-> endRow]>>

\* scrollContainer.scrollTop and clientHeight as the browser may report them.
ScrollTops == {0, BUFFER_ROWS * ROW_HEIGHT + ROW_HEIGHT \div 2, MaxScrollRows * ROW_HEIGHT}
ClientHeights == {0, ROW_HEIGHT + 8}

\* A click on a group row: PivotTable.toggleNode, which flattens the tree again,
\* then updateScrollHeight, clearVisibleRows and updateVisibleRows.
ToggleNode ==
  \E i \in 1..Len(flatRows), viewportHeight \in ClientHeights :
    /\ flatRows[i].type = "group"
    /\ treeRoot' = toggleNode(treeRoot, flatRows[i].nodeId)
    /\ flatRows' = flattenTree(treeRoot')
    /\ visibleRange' = VisibleWindow(pivotScrollTop, viewportHeight, Len(flatRows'))
    /\ UNCHANGED <<pivotData, pivotConfig, pivotScrollTop>>
    /\ UNCHANGED notPivot

ExpandAll ==
  \E viewportHeight \in ClientHeights :
    /\ treeRoot' = setAllNodesExpanded(treeRoot, TRUE)
    /\ flatRows' = flattenTree(treeRoot')
    /\ visibleRange' = VisibleWindow(pivotScrollTop, viewportHeight, Len(flatRows'))
    /\ UNCHANGED <<pivotData, pivotConfig, pivotScrollTop>>
    /\ UNCHANGED notPivot

CollapseAll ==
  \E viewportHeight \in ClientHeights :
    /\ treeRoot' = setAllNodesExpanded(treeRoot, FALSE)
    /\ flatRows' = flattenTree(treeRoot')
    /\ visibleRange' = VisibleWindow(pivotScrollTop, viewportHeight, Len(flatRows'))
    /\ UNCHANGED <<pivotData, pivotConfig, pivotScrollTop>>
    /\ UNCHANGED notPivot

\* scrollHandler = () => this.updateVisibleRows()
PivotScroll ==
  \E top \in ScrollTops, viewportHeight \in ClientHeights :
    /\ pivotScrollTop' = top
    /\ visibleRange' = VisibleWindow(top, viewportHeight, Len(flatRows))
    /\ UNCHANGED <<pivotData, pivotConfig, treeRoot, flatRows>>
    /\ UNCHANGED notPivot

\* mount: refresh() builds the tree, flattens it and shows the first window.
InitPivot ==
  /\ TablePartsIdle
  /\ BinderIdle
  /\ StorageIdle
  /\ ValidatorIdle
  /\ WidthsIdle
  /\ pivotData \in PivotDatasets
  /\ pivotConfig \in [rowGroups : RowGroupLists, aggregation : Aggregations]
  /\ treeRoot = buildPivotTree(pivotData, pivotConfig.rowGroups, pivotConfig.aggregation)
  /\ flatRows = flattenTree(treeRoot)
  /\ pivotScrollTop = 0
  /\ \E viewportHeight \in ClientHeights :
       visibleRange = VisibleWindow(0, viewportHeight, Len(flatRows))

NextPivot ==
  \/ ToggleNode
  \/ ExpandAll
  \/ CollapseAll
  \/ PivotScroll

SpecPivot == InitPivot /\ [][NextPivot]_vars

\* The ids of the rows a depth-first walk gives when the subtotal of an expanded
\* group comes after the rows of its descendants.
RECURSIVE DepthFirstIds(_)
RECURSIVE DepthFirstOfAll(_)
DepthFirstOfAll(nodes) ==
  IF nodes = <<>> THEN <<>>
  ELSE DepthFirstIds(Head(nodes)) \o DepthFirstOfAll(Tail(nodes))
DepthFirstIds(node) ==
  <<node.id>> \o (IF node.type = "group" /\ node.isExpanded
                  THEN DepthFirstOfAll(node.children) \o <<SubtotalId(node.id)>>
                  ELSE <<>>)

RowIds(rows) == [i \in 1..Len(rows) |-> rows[i].nodeId]

\* C14: flattening emits the rows depth first: a group row, the rows of its
\* children from left to right when it is expanded, then the one subtotal row of
\* the group after all rows of its descendants; the grand-total row is last.
C14_SubtotalAfterDescendants ==
  RowIds(flatRows) =
    (IF treeRoot.children = <<>> THEN <<>>
     ELSE DepthFirstOfAll(treeRoot.children) \o <<GrandTotalId>>)

\* What flattenTree does: the subtotal row of an expanded group is the row right
\* after the group row, before the rows of its children.
SubtotalRightAfterGroup ==
  \A i \in 1..Len(flatRows) :
    (flatRows[i].rowType = "nomal" /\ flatRows[i].type = "group" /\ flatRows[i].isExpanded)
      => /\ i < Len(flatRows)
         /\ flatRows[i + 1].nodeId = SubtotalId(flatRows[i].nodeId)
         /\ flatRows[i + 1].rowType = "subtotal"

\* The sum of the numeric values of the field over the rows of D that test passes.
RECURSIVE SumWhere(_, _, _)
SumWhere(data, fieldKey, keep) ==
  IF data = <<>> THEN 0
  ELSE LET row == Head(data)
           number == ToNumber(row[fieldKey])
       IN  (IF row \in keep /\ ~number.nan THEN number.val ELSE 0)
             + SumWhere(Tail(data), fieldKey, keep)

RowsOfKey(value) == {row \in PivotSampleRows : row[pivotConfig.rowGroups[1]] = value}

RECURSIVE GroupSumsAddUp(_)
GroupSumsAddUp(node) ==
  /\ (node.children # <<>> /\ node.children[1].type = "group")
       => node.aggregatedData[ValueField].n =
            SumOf([i \in 1..Len(node.children) |->
                     node.children[i].aggregatedData[ValueField].n])
  /\ \A i \in 1..Len(node.children) : GroupSumsAddUp(node.children[i])

\* C15: with a value field aggregated by sum, each level-0 group of key k holds
\* the sum of the field over the rows of D with that key, every group holds the
\* sum of its child groups, and the root holds the sum over all rows of D.
C15_SumAggregation ==
  pivotConfig.aggregation = "sum" =>
    /\ \A i \in 1..Len(treeRoot.children) :
         treeRoot.children[i].aggregatedData[ValueField].n =
           SumWhere(pivotData, ValueField, RowsOfKey(treeRoot.children[i].groupValue))
    /\ \A row \in PivotSampleRows :
         (\E i \in 1..Len(pivotData) : pivotData[i] = row)
           => \E i \in 1..Len(treeRoot.children) :
                treeRoot.children[i].groupValue = row[pivotConfig.rowGroups[1]]
    /\ GroupSumsAddUp(treeRoot)
    /\ treeRoot.aggregatedData[ValueField].n = SumWhere(pivotData, ValueField, PivotSampleRows)

\* Two level-0 groups under two levels of grouping, one of them expanded and with
\* two child groups, a row without a number among the data, and a grand total
\* that is not zero.
C15_Witness ==
  /\ pivotConfig.aggregation = "sum"
  /\ Len(pivotConfig.rowGroups) = 2
  /\ Len(treeRoot.children) = 2
  /\ \E i \in 1..2 : /\ Len(treeRoot.children[i].children) = 2
                     /\ treeRoot.children[i].isExpanded
  /\ \E i \in 1..Len(pivotData) : ToNumber(pivotData[i][ValueField]).nan
  /\ treeRoot.aggregatedData[ValueField].n > 0

\* C16: for every scrollTop >= 0, viewportHeight >= 0 and totalRows > 0 the
\* window has 0 <= startRow <= endRow <= totalRows - 1.
C16_WindowWithinRows ==
  \A i \in 1..Len(visibleRange) :
    /\ 0 <= visibleRange[i].startRow
    /\ visibleRange[i].startRow <= visibleRange[i].endRow
    /\ visibleRange[i].endRow <= visibleRange[i].totalRows - 1

\* The window as long as the scroll position is within the height of the rows.
WindowWithinRowsWhenScrollWithinHeight ==
  \A i \in 1..Len(visibleRange) :
    visibleRange[i].scrollTop < visibleRange[i].totalRows * ROW_HEIGHT
      => /\ 0 <= visibleRange[i].startRow
         /\ visibleRange[i].startRow <= visibleRange[i].endRow
         /\ visibleRange[i].endRow <= visibleRange[i].totalRows - 1

(***************************************************************************)
(* ScrollBinder: the scroll handler of the table shell.  The browser keeps *)
(* the list of animation-frame callbacks; at a frame it runs the callbacks *)
(* of the list and empties it.                                             *)
(***************************************************************************)
MaxFrameRequests == 5

\* The same without the cancelling.
CallbacksKept(callbacks, id) == callbacks

\* cancelAnimationFrame(id)
CallbacksAfterCancel(callbacks, id) == callbacks \ {id}

\* bind(container, onRafScroll): unbind, then attach the handler.
BindScroll ==
  /\ scrollBound' = TRUE
  /\ frameCallbacks' = IF rafId # 0 THEN CallbacksAfterCancel(frameCallbacks, rafId)
                       ELSE frameCallbacks
  /\ rafId' = 0
  /\ UNCHANGED <<nextRafId, scrollEvents, frameRuns, lastScroll>>
  /\ UNCHANGED notBinder

UnbindScroll ==
  /\ scrollBound' = FALSE
  /\ frameCallbacks' = IF rafId # 0 THEN CallbacksAfterCancel(frameCallbacks, rafId)
                       ELSE frameCallbacks
  /\ rafId' = 0
  /\ UNCHANGED <<nextRafId, scrollEvents, frameRuns, lastScroll>>
  /\ UNCHANGED notBinder

\* onScrollHandler: a scroll event of the container
ScrollEvent ==
  /\ scrollBound
  /\ nextRafId <= MaxFrameRequests
  /\ LET cancelled == IF rafId # 0 THEN CallbacksAfterCancel(frameCallbacks, rafId)
                      ELSE frameCallbacks
     IN  /\ frameCallbacks' = cancelled \cup {nextRafId}
         /\ lastScroll' = <<[pendingBefore |-> frameCallbacks # {},
                             requested |-> 1,
                             cancelled |-> Cardinality(frameCallbacks \ cancelled)]>>
  /\ rafId' = nextRafId
  /\ nextRafId' = nextRafId + 1
  /\ scrollEvents' = scrollEvents + 1
  /\ UNCHANGED <<scrollBound, frameRuns>>
  /\ UNCHANGED notBinder

\* The next frame: every callback of the list runs onRafScroll once; rafId keeps
\* the id of the callback that ran.
AnimationFrame ==
  /\ frameRuns' = Cardinality(frameCallbacks)
  /\ frameCallbacks' = {}
  /\ scrollEvents' = 0
  /\ lastScroll' = <<>>
  /\ UNCHANGED <<scrollBound, rafId, nextRafId>>
  /\ UNCHANGED notBinder

InitBinder ==
  /\ TablePartsIdle
  /\ PivotIdle
  /\ StorageIdle
  /\ ValidatorIdle
  /\ WidthsIdle
  /\ BinderIdle

NextBinder ==
  \/ BindScroll
  \/ UnbindScroll
  \/ ScrollEvent
  \/ AnimationFrame

SpecBinder == InitBinder /\ [][NextBinder]_vars

\* C17: scroll events are coalesced per frame: while a callback is pending a
\* further scroll event schedules no other one, at most one callback is pending
\* at any time and onRafScroll runs at most once per frame.
C17_ScrollsCoalesced ==
  /\ \A i \in 1..Len(lastScroll) : lastScroll[i].pendingBefore => lastScroll[i].requested = 0
  /\ Cardinality(frameCallbacks) <= 1
  /\ frameRuns <= 1

\* C17 as the code has it: a scroll event that finds a callback pending cancels
\* it and requests a new one, so that at most one callback is pending at any time
\* and onRafScroll runs at most once per frame.
C17_PendingCallbackReplaced ==
  /\ \A i \in 1..Len(lastScroll) :
       /\ lastScroll[i].requested = 1
       /\ lastScroll[i].pendingBefore => lastScroll[i].cancelled = 1
  /\ Cardinality(frameCallbacks) <= 1
  /\ frameRuns <= 1
  /\ frameCallbacks # {} => frameCallbacks = {rafId}

\* A frame ran its one callback, then three scroll events came before the next.
C17_Witness ==
  /\ frameRuns = 1
  /\ scrollEvents = 3
  /\ lastScroll # <<>>
  /\ lastScroll[1].pendingBefore
  /\ Cardinality(frameCallbacks) = 1

(***************************************************************************)
(* ColumnWidthStorage: the column widths, the column order and the table   *)
(* width of one table in localStorage.  A text is the list of its          *)
(* characters.                                                             *)
(***************************************************************************)
Slots == {"columnsKey", "columnOrderKey", "tableWidthKey"}

\* The values the table saves.
SavedWidths == {[a |-> 120]}
SavedOrders == {<<"a">>, <<"b", "a">>}
SavedTableWidths == {0, 800}

Quoted(key) == <<"\"", key, "\"">>

\* JSON.stringify of a record of widths with the one key a
StringifyWidths(widths) == <<"{">> \o Quoted("a") \o <<":">> \o NumberToString(widths.a) \o <<"}">>

\* JSON.stringify of a list of keys
RECURSIVE JoinedKeys(_)
JoinedKeys(keys) ==
  IF keys = <<>> THEN <<>>
  ELSE IF Len(keys) = 1 THEN Quoted(keys[1])
  ELSE Quoted(keys[1]) \o <<",">> \o JoinedKeys(Tail(keys))
StringifyOrder(keys) == <<"[">> \o JoinedKeys(keys) \o <<"]">>

\* What may be found under a key: what the class wrote, and what anything else
\* wrote or left there.
ForeignTexts ==
  { <<>>, <<"a", "b", "c">>, <<"{">>, <<"1", "2", "p", "x">>, <<"4", "2">> }
Texts ==
  ForeignTexts \cup {StringifyWidths(w) : w \in SavedWidths}
               \cup {StringifyOrder(o) : o \in SavedOrders}
               \cup {NumberToString(n) : n \in SavedTableWidths}

Returned(value) == [threw |-> FALSE, value |-> value]
Thrown == [threw |-> TRUE, value |-> [r |-> "undefined"]]

NullResult == [r |-> "null"]
NaNResult == [r |-> "NaN"]
NumberResult(n) == [r |-> "number", n |-> n]
ObjectResult(widths) == [r |-> "object", widths |-> widths]
ArrayResult(keys) == [r |-> "array", keys |-> keys]
Undefined == [r |-> "undefined"]

\* JSON.parse(text) on the texts of the model
JsonParse(text) ==
  IF \E w \in SavedWidths : StringifyWidths(w) = text
  THEN Returned(ObjectResult(CHOOSE w \in SavedWidths : StringifyWidths(w) = text))
  ELSE IF \E o \in SavedOrders : StringifyOrder(o) = text
  THEN Returned(ArrayResult(CHOOSE o \in SavedOrders : StringifyOrder(o) = text))
  ELSE IF text # <<>> /\ \A i \in 1..Len(text) : IsDigit(text[i])
  THEN Returned(NumberResult(DigitsValue(text)))
  ELSE Thrown

\* parseInt(text, 10)
ParseInt(text) ==
  IF DigitPrefix(text) = <<>> THEN NaNResult ELSE NumberResult(DigitsValue(DigitPrefix(text)))

HasItem(key) == key \in DOMAIN localStorage

\* localStorage.getItem(key): null for no entry
GetItem(key) ==
  IF ~storageAvailable THEN Thrown
  ELSE IF HasItem(key) THEN Returned([r |-> "text", text |-> localStorage[key]])
  ELSE Returned(NullResult)

\* localStorage.setItem(key, text)
StoreAfterSet(key, text) ==
  [k \in DOMAIN localStorage \cup {key} |-> IF k = key THEN text ELSE localStorage[k]]

\* localStorage.removeItem of the keys
StoreAfterRemove(keys) ==
  [k \in DOMAIN localStorage \ keys |-> localStorage[k]]

\* try { ... } catch (err) { console.warn(...); return fallback }
Caught(outcome, fallback) == IF outcome.threw THEN Returned(fallback) ELSE outcome

\* data ? parse(data) : null, where the empty string is falsy
ParsedOrNull(item, Parse(_)) ==
  IF item.threw THEN Thrown
  ELSE IF item.value.r = "null" THEN Returned(NullResult)
  ELSE IF item.value.text = <<>> THEN Returned(NullResult)
  ELSE Parse(item.value.text)

StoredAt(key) == IF HasItem(key) THEN <<localStorage[key]>> ELSE <<>>

StorageCall(op, key, outcome) ==
  <<[op |-> op, key |-> key, available |-> storageAvailable, stored |-> StoredAt(key),
     threw |-> outcome.threw, result |-> outcome.value]>>

\* try { localStorage.setItem(key, text) } catch (err) { console.warn(...) }
StoreAfterSave(key, text) ==
  IF storageAvailable THEN StoreAfterSet(key, text) ELSE localStorage
SaveCall(key) ==
  StorageCall("save", key,
              Caught(IF storageAvailable THEN Returned(Undefined) ELSE Thrown, Undefined))

SaveColumnWidth ==
  \E widths \in SavedWidths :
    /\ localStorage' = StoreAfterSave("columnsKey", StringifyWidths(widths))
    /\ lastStorageCall' = SaveCall("columnsKey")
    /\ UNCHANGED storageAvailable
    /\ UNCHANGED notStorage

SaveTableWidth ==
  \E width \in SavedTableWidths :
    /\ localStorage' = StoreAfterSave("tableWidthKey", NumberToString(width))
    /\ lastStorageCall' = SaveCall("tableWidthKey")
    /\ UNCHANGED storageAvailable
    /\ UNCHANGED notStorage

SaveColumnOrder ==
  \E keys \in SavedOrders :
    /\ localStorage' = StoreAfterSave("columnOrderKey", StringifyOrder(keys))
    /\ lastStorageCall' = SaveCall("columnOrderKey")
    /\ UNCHANGED storageAvailable
    /\ UNCHANGED notStorage

LoadColumnWidth ==
  /\ lastStorageCall' =
       StorageCall("load", "columnsKey",
                   Caught(ParsedOrNull(GetItem("columnsKey"), JsonParse), NullResult))
  /\ UNCHANGED <<localStorage, storageAvailable>>
  /\ UNCHANGED notStorage

LoadTableWidth ==
  /\ lastStorageCall' =
       LET ParsedInt(text) == Returned(ParseInt(text))
       IN  StorageCall("load", "tableWidthKey",
                       Caught(ParsedOrNull(GetItem("tableWidthKey"), ParsedInt), NullResult))
  /\ UNCHANGED <<localStorage, storageAvailable>>
  /\ UNCHANGED notStorage

LoadColumnOrder ==
  /\ lastStorageCall' =
       StorageCall("load", "columnOrderKey",
                   Caught(ParsedOrNull(GetItem("columnOrderKey"), JsonParse), NullResult))
  /\ UNCHANGED <<localStorage, storageAvailable>>
  /\ UNCHANGED notStorage

ClearStorage ==
  /\ localStorage' = IF storageAvailable THEN StoreAfterRemove(Slots) ELSE localStorage
  /\ lastStorageCall' =
       StorageCall("clear", "columnsKey",
                   Caught(IF storageAvailable THEN Returned(Undefined) ELSE Thrown, Undefined))
  /\ UNCHANGED storageAvailable
  /\ UNCHANGED notStorage

\* The page's storage is not the table's alone: other code, an older version or
\* the user may write any text under a key.
ForeignWrite ==
  \E key \in Slots, text \in ForeignTexts :
    /\ storageAvailable
    /\ localStorage' = StoreAfterSet(key, text)
    /\ UNCHANGED <<storageAvailable, lastStorageCall>>
    /\ UNCHANGED notStorage

\* The browser denies or grants the access to localStorage.
StorageAccessChanges ==
  /\ storageAvailable' = ~storageAvailable
  /\ UNCHANGED <<localStorage, lastStorageCall>>
  /\ UNCHANGED notStorage

InitStorage ==
  /\ TablePartsIdle
  /\ PivotIdle
  /\ BinderIdle
  /\ ValidatorIdle
  /\ WidthsIdle
  /\ StorageIdle

NextStorage ==
  \/ SaveColumnWidth
  \/ SaveTableWidth
  \/ SaveColumnOrder
  \/ LoadColumnWidth
  \/ LoadTableWidth
  \/ LoadColumnOrder
  \/ ClearStorage
  \/ ForeignWrite
  \/ StorageAccessChanges

SpecStorage == InitStorage /\ [][NextStorage]_vars

\* The text under a key is not what the slot holds: no JSON for the widths and
\* the order, no number for the table width.
Malformed(key, text) ==
  /\ text # <<>>
  /\ IF key = "tableWidthKey" THEN ToNumber(Str(text)).nan ELSE JsonParse(text).threw

\* C18: for each of the three slots load returns null when nothing is stored,
\* when the storage is unavailable and when the stored text is malformed, and
\* save, load and clear never throw.
C18_LoadNullAndNoThrow ==
  \A i \in 1..Len(lastStorageCall) :
    LET call == lastStorageCall[i]
    IN  /\ ~call.threw
        /\ (call.op = "load"
              /\ (\/ ~call.available
                  \/ call.stored = <<>>
                  \/ Malformed(call.key, call.stored[1])))
             => call.result = NullResult

\* The same for the widths and the order only, and no call throws.
LoadNullForJsonSlots ==
  \A i \in 1..Len(lastStorageCall) :
    LET call == lastStorageCall[i]
    IN  /\ ~call.threw
        /\ (call.op = "load"
              /\ (\/ ~call.available
                  \/ call.stored = <<>>
                  \/ (call.key # "tableWidthKey" /\ Malformed(call.key, call.stored[1]))))
             => call.result = NullResult

(***************************************************************************)
(* The column keys of a new table: new TableConfig(userConfig) validates   *)
(* the configuration, initializeAsync asserts the keys once more.          *)
(***************************************************************************)
MaxColumns == 3
MaxSavedOrder == 3

UserColumnLists == UNION {[1..n -> [key : ColumnKeys]] : n \in 0..MaxColumns}

\* What loadColumnOrder can return: any list of keys, known or not, repeated or not.
LoadedOrders == UNION {[1..n -> ColumnKeys \cup {UnknownKey}] : n \in 0..MaxSavedOrder}

\* this.config.columns
ConfigColumns == IF restore.done THEN restore.columns ELSE userColumns

\* The same test on neighbours only.
assertNeighbourKeysDiffer(columns) ==
  IF \E i \in 1..(Len(columns) - 1) : columns[i].key = columns[i + 1].key
  THEN "throws" ELSE "ok"

\* The loop of assertUniqueColumnKeys from column i on, set holding the keys seen.
RECURSIVE AssertFrom(_, _, _)
AssertFrom(columns, i, set) ==
  IF i > Len(columns) THEN "ok"
  ELSE IF columns[i].key \in set THEN "throws"
  ELSE AssertFrom(columns, i + 1, set \cup {columns[i].key})

assertUniqueColumnKeys(columns) == AssertFrom(columns, 1, {})

\* ConfigValidator.vilidate for a configuration without a side panel: the
\* columns are required and not empty, no key is repeated.
ConfigValidatorVilidate(columns) ==
  IF Len(columns) = 0 THEN "throws"
  ELSE IF \E i, j \in 1..Len(columns) : i # j /\ columns[i].key = columns[j].key
  THEN "throws" ELSE "ok"

\* new TableConfig(userConfig)
NewTableConfig ==
  /\ validation.constructed = None
  /\ validation' = [validation EXCEPT !.constructed = ConfigValidatorVilidate(userColumns)]
  /\ UNCHANGED <<userColumns, savedColumnOrder, restore>>
  /\ UNCHANGED notValidator

\* restoreColumnOrder(savedOrder): every saved key the column map holds pushes
\* its column, then the columns whose key was not processed follow
restoreColumnOrder(columns, savedOrder) ==
  LET InMap(key) == \E i \in 1..Len(columns) : columns[i].key = key
      Get(key) == columns[CHOOSE i \in 1..Len(columns) : columns[i].key = key]
      found == SelectSeq(savedOrder, InMap)
      Unprocessed(col) == \A i \in 1..Len(found) : found[i] # col.key
  IN  [i \in 1..Len(found) |-> Get(found[i])] \o SelectSeq(columns, Unprocessed)

\* restoreColumnWidths, in the constructor after new TableConfig:
\* if (savedColumnOrder && savedColumnOrder.length > 0) restoreColumnOrder(...)
RestoreColumnWidths ==
  /\ validation.constructed = "ok"
  /\ validation.asserted = None
  /\ ~restore.done
  /\ restore' = [done |-> TRUE,
                 columns |-> IF Len(savedColumnOrder) > 0
                               THEN restoreColumnOrder(userColumns, savedColumnOrder)
                               ELSE userColumns]
  /\ UNCHANGED <<userColumns, validation, savedColumnOrder>>
  /\ UNCHANGED notValidator

\* initializeAsync: assertUniqueColumnKeys(this.config.columns)
AssertUniqueColumnKeys ==
  /\ validation.asserted = None
  /\ validation' = [validation EXCEPT !.asserted = assertUniqueColumnKeys(ConfigColumns)]
  /\ UNCHANGED <<userColumns, savedColumnOrder, restore>>
  /\ UNCHANGED notValidator

InitValidator ==
  /\ TablePartsIdle
  /\ PivotIdle
  /\ BinderIdle
  /\ StorageIdle
  /\ WidthsIdle
  /\ userColumns \in UserColumnLists
  /\ validation = [constructed |-> None, asserted |-> None]
  /\ savedColumnOrder \in LoadedOrders
  /\ restore = [done |-> FALSE, columns |-> <<>>]

NextValidator ==
  \/ NewTableConfig
  \/ RestoreColumnWidths
  \/ AssertUniqueColumnKeys

SpecValidator == InitValidator /\ [][NextValidator]_vars

HasDuplicateKey(columns) ==
  \E i, j \in 1..Len(columns) : i < j /\ columns[i].key = columns[j].key

\* C13: a column list with two columns of the same key raises an error on
\* construction wherever the duplicate sits; a non-empty list of pairwise
\* distinct keys passes.
C13_DuplicateKeysRaise ==
  /\ validation.constructed # None =>
       /\ HasDuplicateKey(userColumns) => validation.constructed = "throws"
       /\ (Len(userColumns) > 0 /\ ~HasDuplicateKey(userColumns))
            => validation.constructed = "ok"
  /\ validation.asserted # None =>
       /\ HasDuplicateKey(ConfigColumns) => validation.asserted = "throws"
       /\ (Len(ConfigColumns) > 0 /\ ~HasDuplicateKey(ConfigColumns))
            => validation.asserted = "ok"

\* Three columns, the first and the last with the same key, refused by both.
C13_Witness ==
  /\ Len(userColumns) = 3
  /\ userColumns[1].key = userColumns[3].key
  /\ userColumns[1].key # userColumns[2].key
  /\ validation.constructed = "throws"
  /\ validation.asserted = "throws"

\* the saved keys the configuration knows, each once, in saved order
RECURSIVE KnownOnce(_, _, _)
KnownOnce(savedOrder, known, seen) ==
  IF savedOrder = <<>> THEN <<>>
  ELSE IF Head(savedOrder) \in known \ seen
    THEN <<Head(savedOrder)>> \o KnownOnce(Tail(savedOrder), known, seen \cup {Head(savedOrder)})
    ELSE KnownOnce(Tail(savedOrder), known, seen)

IsRestoredOrder(columns, configured, savedOrder) ==
  LET first == KnownOnce(savedOrder, KeySet(configured), {})
      Rest(key) == \A i \in 1..Len(first) : first[i] # key
  IN  KeysOf(columns) = first \o SelectSeq(KeysOf(configured), Rest)

\* C27: restoring any stored column order (unknown, missing or repeated keys)
\* leaves config.columns a permutation of the configured columns, the saved
\* known keys first in saved order and the other columns after them in
\* configured order, and the key check of the initialization that follows
\* never fails because of what was stored.
C27_RestoredOrderIsPermutation ==
  restore.done =>
    /\ IsRestoredOrder(restore.columns, userColumns, savedColumnOrder)
    /\ validation.asserted # "throws"

\* C27 for the orders saveColumnOrder writes, which repeat no key
C27_ForOrdersWithoutRepeats ==
  (restore.done /\ \A i, j \in 1..Len(savedColumnOrder) :
                     savedColumnOrder[i] = savedColumnOrder[j] => i = j) =>
    /\ IsRestoredOrder(restore.columns, userColumns, savedColumnOrder)
    /\ validation.asserted # "throws"

(***************************************************************************)
(* calculateColumnWidth.  A number is finite or NaN; the widths, minimum   *)
(* widths and flex values of the model are integers, and its flex sums are *)
(* 0, 2 or 4, for which    flex / totalFlex and the product with the       *)
(* remaining width are exact in floating point.                            *)
(***************************************************************************)
MaxWidthColumns == 2
DefaultMinWidth == 100

\* A column: width, minWidth and flex, each given or undefined.
WidthColumn(hasWidth, width, hasMinWidth, minWidth, hasFlex, flex) ==
  [hasWidth |-> hasWidth, width |-> width, hasMinWidth |-> hasMinWidth,
   minWidth |-> minWidth, hasFlex |-> hasFlex, flex |-> flex]

WidthColumnKinds ==
  { WidthColumn(TRUE, 50, FALSE, 0, FALSE, 0),     \* a width below the default minimum
    WidthColumn(TRUE, 150, TRUE, 120, TRUE, 1),    \* a width, and a flex that is not read
    WidthColumn(FALSE, 0, FALSE, 0, TRUE, 0),
    WidthColumn(FALSE, 0, TRUE, 120, TRUE, 2),
    WidthColumn(FALSE, 0, TRUE, 0, TRUE, 2),       \* minWidth: 0
    WidthColumn(FALSE, 0, FALSE, 0, FALSE, 0),
    WidthColumn(FALSE, 0, TRUE, 120, FALSE, 0) }

WidthColumnLists == UNION {[1..n -> WidthColumnKinds] : n \in 0..MaxWidthColumns}

\* below the sum of the fixed widths, below one minimum width, and roomy
ContainerWidths == {0, 90, 331, 800}

\* col.minWidth || defaultMinWidth
MinWidthOf(col) == IF col.hasMinWidth /\ col.minWidth # 0 THEN col.minWidth ELSE DefaultMinWidth

MaxOf(a, b) == IF a >= b THEN a ELSE b

\* Math.max over numbers one of which may be NaN
MathMax(x, y) == IF x.nan \/ y.nan THEN NaN ELSE Finite(MaxOf(x.val, y.val))

\* x - y and Math.floor(x / n), n a positive integer
Minus(x, y) == IF x.nan \/ y.nan THEN NaN ELSE Finite(x.val - y.val)
FloorOfQuotient(x, n) == IF x.nan THEN NaN ELSE Finite(x.val \div n)

\* Math.floor(remainingWidth * (flex / totalFlex)): 0 / 0 is NaN
FlexShare(remainingWidth, flex, totalFlex) ==
  IF remainingWidth.nan \/ totalFlex = 0 THEN NaN
  ELSE Finite((remainingWidth.val * flex) \div totalFlex)

RECURSIVE SumOfNumbers(_)
SumOfNumbers(numbers) ==
  IF numbers = <<>> THEN Finite(0)
  ELSE IF Head(numbers).nan \/ SumOfNumbers(Tail(numbers)).nan THEN NaN
  ELSE Finite(Head(numbers).val + SumOfNumbers(Tail(numbers)).val)

IsFixed(col) == col.hasWidth
IsFlex(col) == ~col.hasWidth /\ col.hasFlex
IsAuto(col) == ~col.hasWidth /\ ~col.hasFlex

\* fixedCols.push({ index, width: Math.max(col.width, minWidth) })
FixedWidth(col) == MathMax(Finite(col.width), Finite(MinWidthOf(col)))

calculateColumnWidth(columns, container) ==
  LET fixed == SelectSeq(columns, IsFixed)
      flexCols == SelectSeq(columns, IsFlex)
      autoCount == Len(SelectSeq(columns, IsAuto))
      fixedWidth == SumOfNumbers([i \in 1..Len(fixed) |-> FixedWidth(fixed[i])])
      remainingWidth == Minus(Finite(container), fixedWidth)
      totalFlex == SumOf([i \in 1..Len(flexCols) |-> flexCols[i].flex])
      FlexWidth(col) == MathMax(FlexShare(remainingWidth, col.flex, totalFlex),
                                Finite(MinWidthOf(col)))
      flexUsedWidth == SumOfNumbers([i \in 1..Len(flexCols) |-> FlexWidth(flexCols[i])])
      remainingAfterFlex == IF Len(flexCols) > 0 THEN Minus(remainingWidth, flexUsedWidth)
                                                 ELSE remainingWidth
      autoWidth == MathMax(FloorOfQuotient(remainingAfterFlex, autoCount),
                           Finite(DefaultMinWidth))
  IN  [i \in 1..Len(columns) |->
         IF IsFixed(columns[i]) THEN FixedWidth(columns[i])
         ELSE IF IsFlex(columns[i]) THEN FlexWidth(columns[i])
         ELSE MathMax(autoWidth, Finite(MinWidthOf(columns[i])))]

CalculateColumnWidth ==
  /\ ~calculated.done
  /\ calculated' = [done |-> TRUE, widths |-> calculateColumnWidth(widthColumns, containerWidth)]
  /\ UNCHANGED <<widthColumns, containerWidth>>
  /\ UNCHANGED notWidths

\* The layout is computed again, for the same columns in a container of another width.
ResizeContainer ==
  /\ calculated.done
  /\ \E width \in ContainerWidths \ {containerWidth} :
       /\ containerWidth' = width
       /\ calculated' = [done |-> TRUE, widths |-> calculateColumnWidth(widthColumns, width)]
  /\ UNCHANGED widthColumns
  /\ UNCHANGED notWidths

InitWidths ==
  /\ TablePartsIdle
  /\ PivotIdle
  /\ BinderIdle
  /\ StorageIdle
  /\ ValidatorIdle
  /\ widthColumns \in WidthColumnLists
  /\ containerWidth \in ContainerWidths
  /\ calculated = [done |-> FALSE, widths |-> <<>>]

NextWidths == CalculateColumnWidth \/ ResizeContainer

SpecWidths == InitWidths /\ [][NextWidths]_vars

OneWidthPerColumn == Len(calculated.widths) = Len(widthColumns)

WidthsAtLeastMinimum ==
  \A i \in 1..Len(calculated.widths) :
    /\ ~calculated.widths[i].nan
    /\ calculated.widths[i].val >= MinWidthOf(widthColumns[i])

FixedWidthsKept ==
  \A i \in 1..Len(calculated.widths) :
    widthColumns[i].hasWidth =>
      calculated.widths[i] = Finite(MaxOf(widthColumns[i].width, MinWidthOf(widthColumns[i])))

\* C22: calculateColumnWidth returns one width per column, in the order of the
\* columns; whatever the container width (also one below the sum of the fixed
\* widths) and the flex values, every width is an integer that is at least the
\* column's minimum width (its minWidth, or the default), and a column with an
\* explicit width gets max(width, minWidth).
C22_WidthsAreIntegersAtLeastMinimum ==
  calculated.done => (OneWidthPerColumn /\ WidthsAtLeastMinimum /\ FixedWidthsKept)

\* C22 for columns whose flex values do not add up to 0
C22_WithPositiveFlexSum ==
  (calculated.done /\ \A i \in 1..Len(widthColumns) :
                        IsFlex(widthColumns[i]) => widthColumns[i].flex > 0) =>
    (OneWidthPerColumn /\ WidthsAtLeastMinimum /\ FixedWidthsKept)

(***************************************************************************)
(* The static functions of PivotTreeNode on a tree that buildPivotTree     *)
(* made, called with any node and any id, each followed by flattenTree.    *)
(***************************************************************************)
\* what toggleNode returns: whether a node of the tree has the id
RECURSIVE toggleNodeReturns(_, _)
toggleNodeReturns(root, nodeId) ==
  \/ root.id = nodeId
  \/ \E i \in 1..Len(root.children) : toggleNodeReturns(root.children[i], nodeId)

\* PivotTreeNode.expandAll and PivotTreeNode.collapseAll
RECURSIVE expandAll(_)
expandAll(node) ==
  [node EXCEPT !.isExpanded = TRUE,
               !.children = [i \in 1..Len(node.children) |-> expandAll(node.children[i])]]

RECURSIVE collapseAll(_)
collapseAll(node) ==
  [node EXCEPT !.isExpanded = FALSE,
               !.children = [i \in 1..Len(node.children) |-> collapseAll(node.children[i])]]

\* The nodes of a tree in depth-first order, each with the number of its children.
NodeOnly(node) ==
  [id |-> node.id, type |-> node.type, level |-> node.level, groupValue |-> node.groupValue,
   aggregatedData |-> node.aggregatedData, isExpanded |-> node.isExpanded,
   rowCount |-> node.rowCount, childCount |-> Len(node.children)]

RECURSIVE AllNodes(_)
RECURSIVE AllNodesOf(_)
AllNodesOf(nodes) ==
  IF nodes = <<>> THEN <<>> ELSE AllNodes(Head(nodes)) \o AllNodesOf(Tail(nodes))
AllNodes(node) == <<NodeOnly(node)>> \o AllNodesOf(node.children)

NodeIds(root) == {AllNodes(root)[i].id : i \in 1..Len(AllNodes(root))}

\* The ids a caller can pass: those of the nodes, the root among them, and
\* those of the subtotal and grand-total rows, which no node has.
ToggleIds(root) == NodeIds(root) \cup {GrandTotalId} \cup {SubtotalId(id) : id \in NodeIds(root)}

\* The data of the tree runs: the first rows of the sample list.
TreeDatasets == {SubSeq(PivotSampleList, 1, n) : n \in 0..Len(PivotSampleList)}

TreeToggleNode ==
  \E nodeId \in ToggleIds(treeRoot) :
    /\ treeRoot' = toggleNode(treeRoot, nodeId)
    /\ flatRows' = flattenTree(treeRoot')
    /\ UNCHANGED <<pivotData, pivotConfig, pivotScrollTop, visibleRange>>
    /\ UNCHANGED notPivot

TreeExpandAll ==
  /\ treeRoot' = expandAll(treeRoot)
  /\ flatRows' = flattenTree(treeRoot')
  /\ UNCHANGED <<pivotData, pivotConfig, pivotScrollTop, visibleRange>>
  /\ UNCHANGED notPivot

TreeCollapseAll ==
  /\ treeRoot' = collapseAll(treeRoot)
  /\ flatRows' = flattenTree(treeRoot')
  /\ UNCHANGED <<pivotData, pivotConfig, pivotScrollTop, visibleRange>>
  /\ UNCHANGED notPivot

InitPivotTree ==
  /\ TablePartsIdle
  /\ BinderIdle
  /\ StorageIdle
  /\ ValidatorIdle
  /\ WidthsIdle
  /\ pivotData \in TreeDatasets
  /\ pivotConfig \in [rowGroups : RowGroupLists, aggregation : Aggregations]
  /\ treeRoot = buildPivotTree(pivotData, pivotConfig.rowGroups, pivotConfig.aggregation)
  /\ flatRows = flattenTree(treeRoot)
  /\ pivotScrollTop = 0
  /\ visibleRange = <<>>

NextPivotTree ==
  \/ TreeToggleNode
  \/ TreeExpandAll
  \/ TreeCollapseAll

SpecPivotTree == InitPivotTree /\ [][NextPivotTree]_vars

RootIsExpanded == treeRoot.level = -1 /\ treeRoot.isExpanded

RootIsNoFlatRow ==
  \A i \in 1..Len(flatRows) : flatRows[i].nodeId # RootId /\ flatRows[i].level # -1

TopLevelGroupsAreFlatRows ==
  pivotData # <<>> =>
    /\ treeRoot.children # <<>>
    /\ \A i \in 1..Len(treeRoot.children) :
         \E j \in 1..Len(flatRows) : flatRows[j].nodeId = treeRoot.children[i].id

\* C29: the synthetic root (level -1) is expanded in every reachable state,
\* after buildPivotTree and after any sequence of toggleNode, expandAll and
\* collapseAll with any node id; it is never a flat row, and the flat rows of
\* a tree built from data that is not empty hold at least the top-level groups.
C29_RootStaysExpanded == RootIsExpanded /\ RootIsNoFlatRow /\ TopLevelGroupsAreFlatRows

\* the part of C29 about the flat rows, which does not read the root's flag
C29_RootNeverFlattened == RootIsNoFlatRow /\ TopLevelGroupsAreFlatRows

\* toggleNode(before, nodeId) = after and returned: what the call has to do
ToggleEffect(before, after, nodeId, returned) ==
  LET old == AllNodes(before)
      new == AllNodes(after)
      hits == {i \in 1..Len(old) : old[i].id = nodeId}
  IN  IF hits = {}
        THEN ~returned /\ after = before
        ELSE /\ returned
             /\ Cardinality(hits) = 1
             /\ Len(new) = Len(old)
             /\ \A i \in 1..Len(old) :
                  new[i] = IF i \in hits
                             THEN [old[i] EXCEPT !.isExpanded = ~old[i].isExpanded]
                             ELSE old[i]

\* C30: toggleNode(root, id) flips isExpanded of exactly the one node with the
\* id and returns true, leaving the flags of the other nodes, the aggregated
\* values and the structure of the tree as they were; with no node of that id
\* it returns false and changes nothing; toggling the same id twice gives back
\* the tree and its flat rows.
C30_ToggleFlipsOneNode ==
  \A nodeId \in ToggleIds(treeRoot) :
    LET once == toggleNode(treeRoot, nodeId)
        twice == toggleNode(once, nodeId)
    IN  /\ ToggleEffect(treeRoot, once, nodeId, toggleNodeReturns(treeRoot, nodeId))
        /\ twice = treeRoot
        /\ flattenTree(twice) = flatRows

\* Toggles have left a level-0 group expanded with one child group expanded and
\* the other collapsed, next to a collapsed level-0 group.
C30_Witness ==
  /\ Len(treeRoot.children) = 2
  /\ treeRoot.isExpanded
  /\ treeRoot.children[1].isExpanded
  /\ ~treeRoot.children[2].isExpanded
  /\ Len(treeRoot.children[1].children) = 2
  /\ treeRoot.children[1].children[1].type = "group"
  /\ treeRoot.children[1].children[1].isExpanded
  /\ ~treeRoot.children[1].children[2].isExpanded

====
